---- MODULE Spec2Model ----
(***************************************************************************)
(* Model of the webcrawlagent summarization pipeline:                      *)
(*   - app/service.py  CrawlAgentService.run / run_from_text               *)
(*   - app/api.py      analyze, analyze_text, stream.event_generator       *)
(*   - llm/summary.py  build_fallback_summary                              *)
(*   - llm/gemini_client.py  _parse_summary_text and its helpers           *)
(*                                                                         *)
(* Text is modelled as a sequence of one-character strings.  Characters    *)
(* the TLA+ lexer cannot hold in a string literal are named atoms (dq, bs, *)
(* bt, nl, ls, middot).  A fixed line of text on which the program does no *)
(* substring test is a one-element sequence holding the whole line.        *)
(***************************************************************************)
EXTENDS Naturals, Sequences, FiniteSets, TLC

VARIABLES
    \* ---- app/api.py: the request being served
    mode,        \* "stream" | "analyze" | "analyze_text": the endpoint
    request,     \* the request's input: the URL, or the text
    gpc,         \* position of event_generator (stream)
    lag,         \* steps the task took since the generator became ready to resume
    queue,       \* asyncio.Queue of status events (stream)
    puts,        \* history: every event ever put on the queue
    delivered,   \* events the generator has yielded, in order
    cancelled,   \* how often the consumer side was cancelled or closed
    response,    \* the synchronous endpoint's response (0 or 1 element)
    \* ---- app/service.py: the run (the producer task when streaming)
    rpc,         \* position of run / run_from_text
    apiKey,      \* settings.gemini_api_key as the client reads it
    cancelReq,   \* task.cancel() was called on a task that was not done
    session,     \* BrowserSession: "none" | "open" | "closed"
    stages,      \* every message passed to emit, in order
    calls,       \* how often crawl, llm, fallback, render were started
    crawlMsgs,   \* how many progress messages crawl_site has emitted
    crawled,     \* crawl_site's and build_analysis's results (0 or 1 element)
    llmOutcome,  \* <<what the LLM client call did, the provider's reply>>, or <<>>
    result,      \* the ServiceResult returned (0 or 1 element)
    error,       \* the exception raised (0 or 1 element)
    \* ---- llm/gemini_client.py: one parser call
    text,        \* the raw text handed to _parse_summary_text
    origin,      \* how the text was produced (family, value, cut position)
    ppc,         \* "input" | "parsed" | "built"
    parsed,      \* the parser's outcome (0 or 1 element)
    built,       \* from_llm_payload's outcome for it (0 or 1 element)
    \* ---- llm/summary.py: one fallback-builder call
    fbArgs,      \* (crawl, analysis, reason)
    fbpc,        \* "input" | "built"
    fbOut,       \* the SiteSummary built (0 or 1 element)
    \* ---- app/api.py: one request for a report file
    dlReq,       \* (platform, name): the path flavour and the requested name
    dlpc,        \* "input" | "done"
    dlOut,       \* the response (0 or 1 element)
    \* ---- utils/document.py: one text extraction from an uploaded file
    upFile,      \* (filename, content): the name and the bytes of the upload
    uppc,        \* "input" | "done"
    upOut        \* the text returned or the error raised (0 or 1 element)

vars == <<mode, request, gpc, lag, queue, puts, delivered, cancelled, response,
          rpc, apiKey, cancelReq, session, stages, calls, crawlMsgs, crawled,
          llmOutcome, result, error, text, origin, ppc, parsed, built, fbArgs, fbpc, fbOut,
          dlReq, dlpc, dlOut, upFile, uppc, upOut>>

streamVars == <<gpc, lag, queue, puts, delivered, cancelled>>
runVars == <<rpc, apiKey, cancelReq, session, stages, calls, crawlMsgs, crawled,
             llmOutcome, result, error>>
parserVars == <<text, origin, ppc, parsed, built>>
fallbackVars == <<fbArgs, fbpc, fbOut>>
reportVars == <<dlReq, dlpc, dlOut>>
uploadVars == <<upFile, uppc, upOut>>

(***************************************************************************)
(* Text helpers (Python str operations)                                    *)
(***************************************************************************)

\* Characters that cannot be written inside a TLA+ string literal.
dq == "dq"          \* the double quote
bs == "bs"          \* the backslash
bt == "bt"          \* the backtick
nl == "nl"          \* line feed
ls == "ls"          \* U+2028 LINE SEPARATOR
middot == "middot"  \* U+00B7

Min(a, b) == IF a <= b THEN a ELSE b

\* seq[:n]
Take(s, n) == SubSeq(s, 1, Min(n, Len(s)))

\* seq[n:]  (0-based n)
Drop(s, n) == SubSeq(s, n + 1, Len(s))

\* needle in hay
Contains(hay, needle) ==
    \E i \in 1..(Len(hay) + 1) :
        /\ i + Len(needle) - 1 <= Len(hay)
        /\ SubSeq(hay, i, i + Len(needle) - 1) = needle

UpperChars ==
    <<"A","B","C","D","E","F","G","H","I","J","K","L","M","N","O","P","Q","R","S","T","U","V",
      "W","X","Y","Z">>

LowerChars ==
    <<"a","b","c","d","e","f","g","h","i","j","k","l","m","n","o","p","q","r","s","t","u","v",
      "w","x","y","z">>

LowerChar(c) ==
    IF \E i \in 1..26 : UpperChars[i] = c
    THEN LowerChars[CHOOSE i \in 1..26 : UpperChars[i] = c]
    ELSE c

\* str.lower()
Lower(s) == [i \in 1..Len(s) |-> LowerChar(s[i])]

RECURSIVE Concat(_)
\* "".join(parts)
Concat(parts) ==
    IF parts = <<>> THEN <<>> ELSE Head(parts) \o Concat(Tail(parts))

RECURSIVE Join(_, _)
\* sep.join(parts)
Join(sep, parts) ==
    IF parts = <<>> THEN <<>>
    ELSE IF Len(parts) = 1 THEN parts[1]
    ELSE parts[1] \o sep \o Join(sep, Tail(parts))

DigitChars == <<"0","1","2","3","4","5","6","7","8","9">>

RECURSIVE IntStr(_)
\* str(n) for n >= 0
IntStr(n) ==
    IF n < 10 THEN <<DigitChars[n + 1]>>
    ELSE IntStr(n \div 10) \o <<DigitChars[(n % 10) + 1]>>

\* str(None)
NoneStr == <<"N","o","n","e">>

(***************************************************************************)
(* json.loads (CPython json.decoder / json.scanner), on this text model    *)
(*                                                                         *)
(* A decoded value is a tagged record:                                     *)
(*   [t |-> "obj", v |-> <<[k |-> key, v |-> value], ...>>]  dict, in      *)
(*                                         insertion order                 *)
(*   [t |-> "arr", v |-> <<value, ...>>]   list                            *)
(*   [t |-> "str", v |-> chars]            str                             *)
(*   [t |-> "num", v |-> literal]          int / float, by its literal     *)
(*   [t |-> "lit", v |-> literal]          None, True, False, nan, inf     *)
(* \uXXXX escapes are outside the modelled alphabet.                       *)
(***************************************************************************)

\* json.decoder.WHITESPACE: ' \t\n\r'
JsonWs == {" ", "tab", nl, "cr"}

\* characters below U+0020, which a strict JSON string may not hold
ControlChars == {"tab", nl, "cr", "bksp", "ff"}

Digits == {"0","1","2","3","4","5","6","7","8","9"}

\* the index of the first character outside set at or after i, Len(s) + 1 when none
FirstOutside(s, i, set) ==
    IF \E j \in i..Len(s) : s[j] \notin set
    THEN CHOOSE j \in i..Len(s) : s[j] \notin set /\ \A k \in i..(j - 1) : s[k] \in set
    ELSE Len(s) + 1

\* the index of the first character in set at or after i, Len(s) + 1 when none
FirstInside(s, i, set) ==
    IF \E j \in i..Len(s) : s[j] \in set
    THEN CHOOSE j \in i..Len(s) : s[j] \in set /\ \A k \in i..(j - 1) : s[k] \notin set
    ELSE Len(s) + 1

\* the index of the last character outside set, 0 when none
LastOutside(s, set) ==
    IF \E j \in 1..Len(s) : s[j] \notin set
    THEN CHOOSE j \in 1..Len(s) : s[j] \notin set /\ \A k \in (j + 1)..Len(s) : s[k] \in set
    ELSE 0

\* WHITESPACE.match(s, i).end()
SkipWs(s, i) == FirstOutside(s, i, JsonWs)

\* json.decoder.BACKSLASH, by the character after the backslash
EscapeChars == {dq, bs, "/", "b", "f", "n", "r", "t"}

Unescape(c) ==
    CASE c = dq  -> dq
      [] c = bs  -> bs
      [] c = "/" -> "/"
      [] c = "b" -> "bksp"
      [] c = "f" -> "ff"
      [] c = "n" -> nl
      [] c = "r" -> "cr"
      [] c = "t" -> "tab"

JObj(pairs) == [t |-> "obj", v |-> pairs]
JArr(items) == [t |-> "arr", v |-> items]
JStr(chars) == [t |-> "str", v |-> chars]
JNum(literal) == [t |-> "num", v |-> literal]
JLit(literal) == [t |-> "lit", v |-> literal]

\* a scan that raised JSONDecodeError
ScanFail == [ok |-> FALSE, val |-> JLit(<<>>), end |-> 0]

\* a scan that returned val and the index after it
ScanOk(val, end) == [ok |-> TRUE, val |-> val, end |-> end]

\* s[i:].startswith(lit)   (1-based i)
StartsAt(s, i, lit) ==
    /\ i + Len(lit) - 1 <= Len(s)
    /\ SubSeq(s, i, i + Len(lit) - 1) = lit

\* the index after the digits that start at i
DigitRun(s, i) == FirstOutside(s, i, Digits)

\* NUMBER_RE.match(s, i).end(), 0 when there is no match:
\* (-?(?:0|[1-9]\d*))(\.\d+)?([eE][-+]?\d+)?
MatchNumber(s, i) ==
    LET j == IF i <= Len(s) /\ s[i] = "-" THEN i + 1 ELSE i
        intEnd == IF j > Len(s) \/ s[j] \notin Digits THEN 0
                  ELSE IF s[j] = "0" THEN j + 1
                  ELSE DigitRun(s, j)
        fracEnd == IF intEnd # 0 /\ intEnd <= Len(s) /\ s[intEnd] = "."
                      /\ DigitRun(s, intEnd + 1) > intEnd + 1
                   THEN DigitRun(s, intEnd + 1)
                   ELSE intEnd
        expAt == IF fracEnd # 0 /\ fracEnd <= Len(s) /\ s[fracEnd] \in {"e", "E"}
                 THEN IF fracEnd + 1 <= Len(s) /\ s[fracEnd + 1] \in {"-", "+"}
                      THEN fracEnd + 2
                      ELSE fracEnd + 1
                 ELSE 0
    IN  IF expAt # 0 /\ DigitRun(s, expAt) > expAt THEN DigitRun(s, expAt) ELSE fracEnd

\* dict[key] = value: a repeated key keeps its place and takes the new value
DictSet(pairs, key, value) ==
    IF \E i \in 1..Len(pairs) : pairs[i].k = key
    THEN [i \in 1..Len(pairs) |->
             IF pairs[i].k = key THEN [k |-> key, v |-> value] ELSE pairs[i]]
    ELSE Append(pairs, [k |-> key, v |-> value])

RECURSIVE ScanString(_, _, _)
\* py_scanstring(s, i, strict=True): i is the index after the opening quote.  One
\* step per run of plain characters and the quote, escape or control character
\* that ends it.
ScanString(s, i, acc) ==
    LET stop == FirstInside(s, i, {dq, bs} \cup ControlChars)
        chunk == acc \o SubSeq(s, i, stop - 1)
    IN  IF stop > Len(s) THEN ScanFail
        ELSE IF s[stop] = dq THEN ScanOk(chunk, stop + 1)
        ELSE IF s[stop] = bs
             THEN IF stop + 1 <= Len(s) /\ s[stop + 1] \in EscapeChars
                  THEN ScanString(s, stop + 2, Append(chunk, Unescape(s[stop + 1])))
                  ELSE ScanFail
        ELSE ScanFail

JsonLiterals ==
    << <<"n","u","l","l">>, <<"t","r","u","e">>, <<"f","a","l","s","e">>,
       <<"N","a","N">>, <<"I","n","f","i","n","i","t","y">>,
       <<"-","I","n","f","i","n","i","t","y">> >>

RECURSIVE ScanOnce(_, _), ObjectPairs(_, _, _), ArrayItems(_, _, _)

\* JSONObject's loop: i is the index after the opening quote of the next key
ObjectPairs(s, i, pairs) ==
    LET key == ScanString(s, i, <<>>)
        colon == SkipWs(s, key.end)
        value == ScanOnce(s, SkipWs(s, colon + 1))
        next == SkipWs(s, value.end)
        pairs2 == DictSet(pairs, key.val, value.val)
        quote == SkipWs(s, next + 1)
    IN  IF ~key.ok THEN ScanFail
        ELSE IF colon > Len(s) \/ s[colon] # ":" THEN ScanFail
        ELSE IF ~value.ok THEN ScanFail
        ELSE IF next > Len(s) THEN ScanFail
        ELSE IF s[next] = "}" THEN ScanOk(JObj(pairs2), next + 1)
        ELSE IF s[next] # "," THEN ScanFail
        ELSE IF quote > Len(s) \/ s[quote] # dq THEN ScanFail
        ELSE ObjectPairs(s, quote + 1, pairs2)

\* JSONObject(s, i): i is the index after the opening brace
JSONObject(s, i) ==
    LET j == SkipWs(s, i)
    IN  IF j > Len(s) THEN ScanFail
        ELSE IF s[j] = "}" THEN ScanOk(JObj(<<>>), j + 1)
        ELSE IF s[j] # dq THEN ScanFail
        ELSE ObjectPairs(s, j + 1, <<>>)

\* JSONArray's loop: i is the index of the next item
ArrayItems(s, i, items) ==
    LET value == ScanOnce(s, i)
        next == SkipWs(s, value.end)
    IN  IF ~value.ok THEN ScanFail
        ELSE IF next > Len(s) THEN ScanFail
        ELSE IF s[next] = "]" THEN ScanOk(JArr(Append(items, value.val)), next + 1)
        ELSE IF s[next] # "," THEN ScanFail
        ELSE ArrayItems(s, SkipWs(s, next + 1), Append(items, value.val))

\* JSONArray(s, i): i is the index after the opening bracket
JSONArray(s, i) ==
    LET j == SkipWs(s, i)
    IN  IF j <= Len(s) /\ s[j] = "]" THEN ScanOk(JArr(<<>>), j + 1)
        ELSE ArrayItems(s, j, <<>>)

\* json.scanner: _scan_once(s, i)
ScanOnce(s, i) ==
    IF i > Len(s) THEN ScanFail
    ELSE IF s[i] = dq
         THEN LET str == ScanString(s, i + 1, <<>>)
              IN  IF str.ok THEN ScanOk(JStr(str.val), str.end) ELSE ScanFail
    ELSE IF s[i] = "{" THEN JSONObject(s, i + 1)
    ELSE IF s[i] = "[" THEN JSONArray(s, i + 1)
    ELSE IF \E n \in 1..3 : StartsAt(s, i, JsonLiterals[n])
         THEN LET lit == JsonLiterals[CHOOSE n \in 1..3 : StartsAt(s, i, JsonLiterals[n])]
              IN  ScanOk(JLit(lit), i + Len(lit))
    ELSE IF MatchNumber(s, i) # 0
         THEN ScanOk(JNum(SubSeq(s, i, MatchNumber(s, i) - 1)), MatchNumber(s, i))
    ELSE IF \E n \in 4..6 : StartsAt(s, i, JsonLiterals[n])
         THEN LET lit == JsonLiterals[CHOOSE n \in 4..6 : StartsAt(s, i, JsonLiterals[n])]
              IN  ScanOk(JLit(lit), i + Len(lit))
    ELSE ScanFail

\* json.decoder.JSONDecoder.decode: nothing but whitespace may follow the value
WholeText(s, r) ==
    IF r.ok /\ SkipWs(s, r.end) = Len(s) + 1 THEN r ELSE ScanFail

\* json.loads(s): [ok |-> FALSE] stands for JSONDecodeError
JsonLoads(s) == WholeText(s, ScanOnce(s, SkipWs(s, 1)))

(***************************************************************************)
(* llm/gemini_client.py: _strip_code_block                                 *)
(***************************************************************************)

\* the characters str.strip() removes (str.isspace)
PyWhitespace == {" ", "tab", nl, "cr", "ff", ls}

\* the characters str.splitlines() breaks at ("cr" followed by nl is one break)
LineBreaks == {nl, "cr", "ff", ls}

\* str.lstrip()
LStrip(s) == SubSeq(s, FirstOutside(s, 1, PyWhitespace), Len(s))

\* str.rstrip()
RStrip(s) == SubSeq(s, 1, LastOutside(s, PyWhitespace))

\* str.strip()
Strip(s) == RStrip(LStrip(s))

RECURSIVE SplitLinesFrom(_, _)
\* the lines of s[i:] (1-based i), one step per line
SplitLinesFrom(s, i) ==
    LET brk == FirstInside(s, i, LineBreaks)
        next == IF s[brk] = "cr" /\ brk < Len(s) /\ s[brk + 1] = nl THEN brk + 2 ELSE brk + 1
    IN  IF i > Len(s) THEN <<>>
        ELSE IF brk > Len(s) THEN <<SubSeq(s, i, Len(s))>>
        ELSE <<SubSeq(s, i, brk - 1)>> \o SplitLinesFrom(s, next)

\* str.splitlines()
SplitLines(s) == SplitLinesFrom(s, 1)

\* '```'
Fence == <<bt, bt, bt>>

\* line.strip().startswith("```")
IsFence(line) == StartsAt(Strip(line), 1, Fence)

RECURSIVE FenceBody(_, _)
\* the loop of _strip_code_block over the lines
FenceBody(lines, started) ==
    IF lines = <<>> THEN <<>>
    ELSE IF ~started THEN FenceBody(Tail(lines), IsFence(Head(lines)))
    ELSE IF IsFence(Head(lines)) THEN <<>>
    ELSE <<Head(lines)>> \o FenceBody(Tail(lines), TRUE)

_strip_code_block(txt) ==
    LET stripped == Strip(txt)
        body == FenceBody(SplitLines(stripped), FALSE)
    IN  IF ~StartsAt(stripped, 1, Fence) THEN stripped
        ELSE IF body = <<>> THEN stripped
        ELSE Strip(Join(<<nl>>, body))

(***************************************************************************)
(* llm/gemini_client.py: _try_extract_partial_json, _parse_summary_text    *)
(***************************************************************************)

\* the length of the error preview
PreviewLimit == 240

\* the length kept of a preview that is cut
PreviewKept == 237

\* '...'
Ellipsis == <<".", ".", ".">>

\* 'Gemini returned invalid JSON: '
InvalidJsonPrefix ==
    <<"G","e","m","i","n","i"," ","r","e","t","u","r","n","e","d"," ","i","n","v","a","l","i",
      "d"," ","J","S","O","N",":"," ">>

\* 'overview'
OverviewKey == <<"o","v","e","r","v","i","e","w">>

\* 'content_type'
ContentTypeKey == <<"c","o","n","t","e","n","t","_","t","y","p","e">>

\* 'sections'
SectionsKey == <<"s","e","c","t","i","o","n","s">>

\* 'note'
NoteKey == <<"n","o","t","e">>

\* 'document'
DocumentType == <<"d","o","c","u","m","e","n","t">>

IncompleteNote == <<"JSON response was incomplete. Only partial data extracted.">>

\* str.count(c)
Count(s, c) == Cardinality({i \in 1..Len(s) : s[i] = c})

\* c * n: the character c repeated n times
Repeat(c, n) == [i \in 1..n |-> c]

\* str.find(c): the 1-based index of the first c, 0 when there is none
Find(s, c) ==
    IF \E i \in 1..Len(s) : s[i] = c
    THEN CHOOSE i \in 1..Len(s) : s[i] = c /\ \A j \in 1..(i - 1) : s[j] # c
    ELSE 0

\* the candidate of one loop iteration: text[start_idx:len(text) - end_offset],
\* then "}" * open_braces, then "]" * open_brackets
AutoClose(candidate) ==
    LET braces == Count(candidate, "{")
        closedBraces == Count(candidate, "}")
        brackets == Count(candidate, "[")
        closedBrackets == Count(candidate, "]")
    IN  candidate
          \o (IF braces > closedBraces THEN Repeat("}", braces - closedBraces) ELSE <<>>)
          \o (IF brackets > closedBrackets THEN Repeat("]", brackets - closedBrackets)
              ELSE <<>>)

Candidate(txt, start_idx, end_offset) ==
    AutoClose(SubSeq(txt, start_idx, Len(txt) - end_offset))

\* isinstance(parsed, dict) and parsed
Accepted(res) == res.ok /\ res.val.t = "obj" /\ res.val.v # <<>>

\* the end_offset values of range(0, len(text) - start_idx) whose candidate is accepted
AcceptedOffsets(txt, start_idx) ==
    {end_offset \in 0..(Len(txt) - start_idx) :
        Accepted(JsonLoads(Candidate(txt, start_idx, end_offset)))}

\* the parse of the candidate at the smallest of the accepted offsets (0 or 1 element)
FirstAccepted(txt, start_idx, offsets) ==
    IF offsets = {} THEN <<>>
    ELSE <<JsonLoads(Candidate(txt, start_idx,
                               CHOOSE o \in offsets : \A o2 \in offsets : o <= o2)).val>>

\* for end_offset in range(0, len(text) - start_idx): the first accepted parse
TruncationLoop(txt, start_idx) ==
    FirstAccepted(txt, start_idx, AcceptedOffsets(txt, start_idx))

\* the characters \s matches
RegexWs == {" ", "tab", nl, "cr", "ff", ls}

SkipRegexWs(s, i) == FirstOutside(s, i, RegexWs)

\* '"overview"'
QuotedOverview == <<dq>> \o OverviewKey \o <<dq>>

\* r'"overview"\s*:\s*"([^"]*(?:\\.[^"]*)*)"' matched at i: group(1), as (0 or 1
\* element).  [^"]* is greedy and also takes backslashes, so the group always ends
\* at the first double quote after the opening one.
OverviewMatchAt(s, i) ==
    LET colon == SkipRegexWs(s, i + Len(QuotedOverview))
        open == SkipRegexWs(s, colon + 1)
        rest == Drop(s, open)
        close == Find(rest, dq)
    IN  IF ~StartsAt(s, i, QuotedOverview) THEN <<>>
        ELSE IF colon > Len(s) \/ s[colon] # ":" THEN <<>>
        ELSE IF open > Len(s) \/ s[open] # dq THEN <<>>
        ELSE IF close = 0 THEN <<>>
        ELSE <<SubSeq(rest, 1, close - 1)>>

\* re.search(overview_pattern, text): the leftmost match's group(1)
OverviewSearch(s) ==
    IF \E i \in 1..Len(s) : OverviewMatchAt(s, i) # <<>>
    THEN OverviewMatchAt(s, CHOOSE i \in 1..Len(s) :
                                /\ OverviewMatchAt(s, i) # <<>>
                                /\ \A j \in 1..(i - 1) : OverviewMatchAt(s, j) = <<>>)
    ELSE <<>>

\* the 1-based indices at which s.replace(a + b, ...) replaces: the occurrences
\* of a + b, left to right, none overlapping the one before
RECURSIVE ReplaceAt(_, _, _, _)
ReplaceAt(s, a, b, i) ==
    LET hits == {j \in i..(Len(s) - 1) : s[j] = a /\ s[j + 1] = b}
        first == CHOOSE j \in hits : \A k \in hits : j <= k
    IN  IF hits = {} THEN {} ELSE {first} \cup ReplaceAt(s, a, b, first + 2)

\* the characters that replace s[j] when the two-character pattern is replaced by to
ReplacePiece(s, hits, j, to) ==
    IF j \in hits THEN to
    ELSE IF j - 1 \in hits THEN <<>>
    ELSE <<s[j]>>

\* s.replace(a + b, to) for a two-character pattern
Replace2(s, a, b, to) ==
    LET hits == ReplaceAt(s, a, b, 1)
    IN  Concat([j \in 1..Len(s) |-> ReplacePiece(s, hits, j, to)])

\* match.group(1).replace('\\"', '"').replace('\\n', '\n')
UnescapeOverview(group) ==
    Replace2(Replace2(group, bs, dq, <<dq>>), bs, "n", <<nl>>)

\* the minimal mapping built from the overview alone
OverviewOnly(overview) ==
    JObj(<< [k |-> OverviewKey, v |-> JStr(overview)],
            [k |-> ContentTypeKey, v |-> JStr(DocumentType)],
            [k |-> SectionsKey,
             v |-> JObj(<< [k |-> NoteKey, v |-> JArr(<<JStr(IncompleteNote)>>)] >>)] >>)

\* a or b, for two values that are 0 or 1 element
OrElse(a, b) == IF a # <<>> THEN a ELSE b

\* L207-225: the mapping built from the overview field alone (0 or 1 element)
OverviewFallback(txt) ==
    LET match == OverviewSearch(txt)
    IN  IF match # <<>> /\ UnescapeOverview(match[1]) # <<>>
        THEN <<OverviewOnly(UnescapeOverview(match[1]))>>
        ELSE <<>>

\* the mapping recovered (0 or 1 element; None is <<>>)
_try_extract_partial_json(raw) ==
    LET txt == Strip(raw)
        start_idx == Find(txt, "{")
    IN  IF start_idx = 0 THEN <<>>
        ELSE OrElse(TruncationLoop(txt, start_idx), OverviewFallback(txt))

\* str.replace("\n", " ")
Flatten(s) == [i \in 1..Len(s) |-> IF s[i] = nl THEN " " ELSE s[i]]

\* a preview cut at the limit itself, so that the marker goes beyond it
PreviewCutAtLimit(cleaned) ==
    LET preview == Flatten(Strip(cleaned))
    IN  IF Len(preview) > PreviewLimit THEN Take(preview, PreviewLimit) \o Ellipsis
        ELSE preview

\* the preview of the error message
Preview(cleaned) ==
    LET preview == Flatten(Strip(cleaned))
    IN  IF Len(preview) > PreviewLimit THEN Take(preview, PreviewKept) \o Ellipsis
        ELSE preview

Returned(val) == [kind |-> "return", val |-> <<val>>, exc |-> <<>>]

Raised(type, msg) == [kind |-> "raise", val |-> <<>>, exc |-> <<[type |-> type, msg |-> msg]>>]

\* L160-171: the handler of JSONDecodeError
ParseFailed(cleaned, partial_data) ==
    IF partial_data # <<>> THEN Returned(partial_data[1])
    ELSE Raised("GeminiContentError", InvalidJsonPrefix \o Preview(cleaned))

\* L158-171
ParseCleaned(cleaned, decoded) ==
    IF decoded.ok THEN Returned(decoded.val)
    ELSE ParseFailed(cleaned, _try_extract_partial_json(cleaned))

\* the value returned, or the GeminiContentError raised
_parse_summary_text(raw) ==
    ParseCleaned(_strip_code_block(raw), JsonLoads(_strip_code_block(raw)))

(***************************************************************************)
(* report/models.py: SiteSummary                                           *)
(*                                                                         *)
(* Every field holds a Python value in the representation of the decoder   *)
(* above; None is PyNone.                                                  *)
(***************************************************************************)

PyNone == JLit(<<"n","u","l","l">>)

\* the dataclass constructor
SiteSummary(overview, content_type, sections, highlights, recommendations) ==
    [overview |-> overview, content_type |-> content_type, sections |-> sections,
     highlights |-> highlights, recommendations |-> recommendations]

\* key in payload, for a dict
HasKey(payload, key) == \E i \in 1..Len(payload.v) : payload.v[i].k = key

\* payload.get(key, default), for a dict
DictGet(payload, key, default) ==
    IF HasKey(payload, key)
    THEN payload.v[CHOOSE i \in 1..Len(payload.v) : payload.v[i].k = key].v
    ELSE default

\* bool(value)
Truthy(value) ==
    CASE value.t = "lit" -> value.v \notin {<<"n","u","l","l">>, <<"f","a","l","s","e">>}
      [] value.t = "num" ->
            \E i \in 1..(FirstInside(value.v, 1, {"e", "E"}) - 1) :
                value.v[i] \in Digits \ {"0"}
      [] OTHER -> value.v # <<>>

\* 'key_sections'
KeySectionsKey == <<"k","e","y","_","s","e","c","t","i","o","n","s">>

\* 'highlights'
HighlightsKey == <<"h","i","g","h","l","i","g","h","t","s">>

\* 'recommendations'
RecommendationsKey ==
    <<"r","e","c","o","m","m","e","n","d","a","t","i","o","n","s">>

\* 'website'
Website ==
    <<"w","e","b","s","i","t","e">>

\* the sections of the legacy format
LegacySections(payload) ==
    JObj((IF Truthy(DictGet(payload, SectionsKey, PyNone))
          THEN <<[k |-> KeySectionsKey,
                  v |-> DictGet(payload, SectionsKey, PyNone)]>>
          ELSE <<>>)
      \o (IF Truthy(DictGet(payload, HighlightsKey, PyNone))
          THEN <<[k |-> HighlightsKey,
                  v |-> DictGet(payload, HighlightsKey, PyNone)]>>
          ELSE <<>>)
      \o (IF Truthy(DictGet(payload, RecommendationsKey, PyNone))
          THEN <<[k |-> RecommendationsKey,
                  v |-> DictGet(payload, RecommendationsKey, PyNone)]>>
          ELSE <<>>))

\* SiteSummary.from_llm_payload(payload): the summary built, or the exception that
\* payload.get raises on a value that is no dict
from_llm_payload(payload) ==
    IF payload.t # "obj"
    THEN Raised(IF payload.t \in {"arr", "str"} THEN "AttributeError" ELSE "TypeError", <<>>)
    ELSE IF HasKey(payload, SectionsKey) /\ DictGet(payload, SectionsKey, PyNone).t = "obj"
    THEN Returned(SiteSummary(
             DictGet(payload, OverviewKey, JStr(<<>>)),
             DictGet(payload, ContentTypeKey, JStr(DocumentType)),
             DictGet(payload, SectionsKey, JObj(<<>>)),
             DictGet(payload, HighlightsKey, PyNone),
             DictGet(payload, RecommendationsKey, PyNone)))
    ELSE Returned(SiteSummary(
             DictGet(payload, OverviewKey, JStr(<<>>)),
             DictGet(payload, ContentTypeKey, JStr(Website)),
             LegacySections(payload),
             DictGet(payload, HighlightsKey, PyNone),
             DictGet(payload, RecommendationsKey, PyNone)))

(***************************************************************************)
(* llm/summary.py: build_fallback_summary                                  *)
(***************************************************************************)

\* 'Crawled '
OverviewCrawled ==
    <<"C","r","a","w","l","e","d"," ">>

\* ' page(s) from '
OverviewPagesFrom ==
    <<" ","p","a","g","e","(","s",")"," ","f","r","o","m"," ">>

\* '. LLM output unavailable ('
OverviewUnavailable ==
    <<"."," ","L","L","M"," ","o","u","t","p","u","t"," ","u","n","a","v","a","i","l","a","b",
      "l","e"," ","(">>

\* '); showing crawler-derived summary.'
OverviewShowing ==
    <<")",";"," ","s","h","o","w","i","n","g"," ","c","r","a","w","l","e","r","-","d","e","r",
      "i","v","e","d"," ","s","u","m","m","a","r","y",".">>

\* 'Top keywords: '
TopKeywordsPrefix ==
    <<"T","o","p"," ","k","e","y","w","o","r","d","s",":"," ">>

\* ', '
CommaSpace ==
    <<","," ">>

\* 'Internal links: '
InternalLinksPrefix ==
    <<"I","n","t","e","r","n","a","l"," ","l","i","n","k","s",":"," ">>

\* ' · External links: '
ExternalLinksPrefix ==
    <<" ",middot," ","E","x","t","e","r","n","a","l"," ","l","i","n","k","s",":"," ">>

\* 'Detected CTAs: '
DetectedCtasPrefix ==
    <<"D","e","t","e","c","t","e","d"," ","C","T","A","s",":"," ">>

\* ' / '
HeadingSep ==
    <<" ","/"," ">>

\* ' words (status '
WordsStatus ==
    <<" ","w","o","r","d","s"," ","(","s","t","a","t","u","s"," ">>

\* ': '
ColonSpace ==
    <<":"," ">>

\* The two fixed recommendation lines.
FallbackRecommendations ==
    << <<"Review the crawler output manually because the LLM blocked the content.">>,
       <<"Retry with sanitized text or a different site if you need an AI-authored summary.">> >>

\* dict.get(key, default) on a page summary (a mapping with any subset of its keys)
PageGet(page, key, default) ==
    IF key \in DOMAIN page THEN page[key] ELSE default

\* page.get("description") or " / ".join(page.get("headings", [])) or "N words (status S)"
PageSnippet(page) ==
    LET description == PageGet(page, "description", <<>>)
        headings == Join(HeadingSep, PageGet(page, "headings", <<>>))
        word_count == IF "word_count" \in DOMAIN page THEN IntStr(page["word_count"])
                      ELSE <<"0">>
        status == IF "status" \in DOMAIN page THEN IntStr(page["status"]) ELSE NoneStr
    IN  IF description # <<>> THEN description
        ELSE IF headings # <<>> THEN headings
        ELSE word_count \o WordsStatus \o status \o <<")">>

\* f"{page.get('title')}: {snippet}"
PageLine(page) ==
    PageGet(page, "title", NoneStr) \o ColonSpace \o PageSnippet(page)

\* a loop over every page summary
PageLinesUncut(page_summaries) ==
    [i \in 1..Len(page_summaries) |-> PageLine(page_summaries[i])]

\* the loop over analysis.page_summaries[:3]
PageLines(page_summaries) ==
    LET first == Take(page_summaries, 3)
    IN  [i \in 1..Len(first) |-> PageLine(first[i])]

\* f"{first_page.title or first_page.url}: {first_page.description}"
FirstPageLine(first_page) ==
    (IF first_page.title # <<>> THEN first_page.title ELSE first_page.url)
        \o ColonSpace \o first_page.description

FallbackSectionsList(crawl, analysis) ==
    LET sections_list == PageLines(analysis.page_summaries)
    IN  IF sections_list = <<>> /\ crawl.pages # <<>>
        THEN <<FirstPageLine(crawl.pages[1])>>
        ELSE sections_list

FallbackHighlights(analysis) ==
    (IF analysis.keywords # <<>>
     THEN <<TopKeywordsPrefix \o Join(CommaSpace, Take(analysis.keywords, 6))>>
     ELSE <<>>)
    \o <<InternalLinksPrefix \o IntStr(analysis.internal_links)
           \o ExternalLinksPrefix \o IntStr(analysis.external_links)>>
    \o (IF analysis.ctas # <<>>
        THEN <<DetectedCtasPrefix \o Join(CommaSpace, Take(analysis.ctas, 5))>>
        ELSE <<>>)

\* an overview that leaves the reason out
FallbackOverviewWithoutReason(analysis, reason) ==
    OverviewCrawled \o IntStr(analysis.total_pages) \o OverviewPagesFrom
        \o analysis.root_url \o OverviewUnavailable \o OverviewShowing

FallbackOverview(analysis, reason) ==
    OverviewCrawled \o IntStr(analysis.total_pages) \o OverviewPagesFrom
        \o analysis.root_url \o OverviewUnavailable \o reason \o OverviewShowing

\* list[str] as a Python value
StrList(lines) == JArr([i \in 1..Len(lines) |-> JStr(lines[i])])

build_fallback_summary(crawl, analysis, reason) ==
    LET sections_list == FallbackSectionsList(crawl, analysis)
        highlights == FallbackHighlights(analysis)
    IN  SiteSummary(
            JStr(FallbackOverview(analysis, reason)),
            JStr(Website),
            JObj(<< [k |-> KeySectionsKey,
                     v |-> StrList(IF sections_list # <<>> THEN sections_list
                                   ELSE <<analysis.root_url>>)],
                    [k |-> HighlightsKey, v |-> StrList(highlights)],
                    [k |-> RecommendationsKey, v |-> StrList(FallbackRecommendations)] >>),
            StrList(highlights),
            StrList(FallbackRecommendations))

(***************************************************************************)
(* llm/gemini_client.py: GeminiClient                                      *)
(*                                                                         *)
(* What the provider does is an input: the reply to the one POST.          *)
(*   [kind |-> "raise", type, msg]           the POST raised               *)
(*   [kind |-> "error", status, message, text]  a non-success response;    *)
(*        message is error.message of a JSON body (0 or 1 element), text   *)
(*        is what the detail falls back to                                 *)
(*   [kind |-> "ok", candidates, blockReason]   a success response body    *)
(*        candidates: sequence of [parts |-> <<text, ...>>, finishReason]  *)
(*        an absent or empty text / reason is the empty sequence           *)
(***************************************************************************)

\* 'GEMINI_API_KEY is not configured. Please set a valid API key in your environment variables or .env file.'
MsgKeyNotConfigured ==
    <<"G","E","M","I","N","I","_","A","P","I","_","K","E","Y"," ","i","s"," ","n","o","t"," ",
      "c","o","n","f","i","g","u","r","e","d","."," ","P","l","e","a","s","e"," ","s","e","t",
      " ","a"," ","v","a","l","i","d"," ","A","P","I"," ","k","e","y"," ","i","n"," ","y","o",
      "u","r"," ","e","n","v","i","r","o","n","m","e","n","t"," ","v","a","r","i","a","b","l",
      "e","s"," ","o","r"," ",".","e","n","v"," ","f","i","l","e",".">>

\* 'Gemini API error: '
GeminiApiErrorPrefix ==
    <<"G","e","m","i","n","i"," ","A","P","I"," ","e","r","r","o","r",":"," ">>

\* 'Gemini returned no candidates'
MsgNoCandidates ==
    <<"G","e","m","i","n","i"," ","r","e","t","u","r","n","e","d"," ","n","o"," ","c","a","n",
      "d","i","d","a","t","e","s">>

\* 'Gemini response had no text part'
MsgNoTextPart ==
    <<"G","e","m","i","n","i"," ","r","e","s","p","o","n","s","e"," ","h","a","d"," ","n","o",
      " ","t","e","x","t"," ","p","a","r","t">>

\* 'finishReason='
FinishReasonPrefix ==
    <<"f","i","n","i","s","h","R","e","a","s","o","n","=">>

\* 'blockReason='
BlockReasonPrefix ==
    <<"b","l","o","c","k","R","e","a","s","o","n","=">>

\* 'HTTP '
HttpPrefix ==
    <<"H","T","T","P"," ">>

\* Exception classes and their bases.  GeminiContentError derives from
\* LLMContentError (gemini_client.py); LLMContentError (llm/exceptions.py) is
\* a direct Exception subclass, distinct from RuntimeError.
Bases(type) ==
    CASE type = "GeminiContentError" -> {"GeminiContentError", "LLMContentError", "Exception"}
      [] type = "LLMContentError" -> {"LLMContentError", "Exception"}
      [] OTHER -> {type, "Exception"}

\* except cls as exc
IsInstance(exc, cls) == cls \in Bases(exc.type)

\* a search that looks at the first candidate only
FirstTextOfFirstCandidate(candidates) ==
    LET texts == candidates[1].parts
        j == FirstOutside(texts, 1, {<<>>})
    IN  IF j <= Len(texts) THEN <<texts[j]>> ELSE <<>>

\* the first truthy part text of the candidates, in order (0 or 1 element)
FirstText(candidates) ==
    LET texts == Concat([i \in 1..Len(candidates) |-> candidates[i].parts])
        j == FirstOutside(texts, 1, {<<>>})
    IN  IF j <= Len(texts) THEN <<texts[j]>> ELSE <<>>

_extract_text(payload) ==
    IF payload.candidates = <<>>
    THEN Raised("GeminiContentError", MsgNoCandidates)
    ELSE IF FirstText(payload.candidates) # <<>>
    THEN Returned(FirstText(payload.candidates)[1])
    ELSE LET finish_reason == payload.candidates[1].finishReason
             block_reason == payload.blockReason
             details == (IF finish_reason # <<>>
                         THEN <<FinishReasonPrefix \o finish_reason>> ELSE <<>>)
                     \o (IF block_reason # <<>>
                         THEN <<BlockReasonPrefix \o block_reason>> ELSE <<>>)
         IN  Raised("GeminiContentError",
                    IF details # <<>>
                    THEN MsgNoTextPart \o <<" ", "(">> \o Join(CommaSpace, details) \o <<")">>
                    ELSE MsgNoTextPart)

\* an error text that names the status only
ErrorDetailStatusOnly(reply) == HttpPrefix \o IntStr(reply.status)

\* error_detail of a non-success response
ErrorDetail(reply) ==
    IF reply.message # <<>> THEN reply.message[1]
    ELSE IF reply.text # <<>> THEN reply.text
    ELSE HttpPrefix \o IntStr(reply.status)

\* L69-70: from_llm_payload on what the parser returned
FromParsed(parsed_payload) ==
    IF parsed_payload.kind = "raise" THEN parsed_payload
    ELSE from_llm_payload(parsed_payload.val[1])

\* L63-65, L116-118: the exception carries payload={"status": response.status_code}
RaisedWithStatus(type, msg, status) ==
    [kind |-> "raise", val |-> <<>>,
     exc |-> <<[type |-> type, msg |-> msg, status |-> status]>>]

\* everything after the credential check, shared by both entry points
Generate(reply) ==
    IF reply.kind = "raise" THEN Raised(reply.type, reply.msg)
    ELSE IF reply.kind = "error"
    THEN RaisedWithStatus("GeminiContentError", GeminiApiErrorPrefix \o ErrorDetail(reply),
                          reply.status)
    ELSE IF _extract_text(reply).kind = "raise" THEN _extract_text(reply)
    ELSE FromParsed(_parse_summary_text(_extract_text(reply).val[1]))

\* GeminiClient.summarize_site, for the configured key and the provider's reply
summarize_site(gemini_api_key, reply) ==
    IF gemini_api_key = <<>> \/ Strip(gemini_api_key) = <<>>
    THEN Raised("RuntimeError", MsgKeyNotConfigured)
    ELSE Generate(reply)

\* GeminiClient.summarize_text, likewise
summarize_text(gemini_api_key, reply) ==
    IF gemini_api_key = <<>> \/ Strip(gemini_api_key) = <<>>
    THEN Raised("RuntimeError", MsgKeyNotConfigured)
    ELSE Generate(reply)

(***************************************************************************)
(* app/service.py: CrawlAgentService                                       *)
(*                                                                         *)
(* A progress message is a fixed line: a one-element sequence.             *)
(***************************************************************************)

\* 'API_KEY'
NeedleAPI_KEY ==
    <<"A","P","I","_","K","E","Y">>

\* 'API key'
NeedleApiKey ==
    <<"A","P","I"," ","k","e","y">>

\* 'API Key not found'
NeedleApiKeyNotFound ==
    <<"A","P","I"," ","K","e","y"," ","n","o","t"," ","f","o","u","n","d">>

\* a configuration reason with no tag before the error text
ReasonConfigUntagged == <<>>

\* 'API key configuration error: '
ReasonConfigPrefix ==
    <<"A","P","I"," ","k","e","y"," ","c","o","n","f","i","g","u","r","a","t","i","o","n"," ",
      "e","r","r","o","r",":"," ">>

\* 'API key error: '
ReasonKeyPrefix ==
    <<"A","P","I"," ","k","e","y"," ","e","r","r","o","r",":"," ">>

\* 'Text analysis unavailable ('
TextUnavailablePrefix ==
    <<"T","e","x","t"," ","a","n","a","l","y","s","i","s"," ","u","n","a","v","a","i","l","a",
      "b","l","e"," ","(">>

\* '). Content length: '
TextContentLength ==
    <<")","."," ","C","o","n","t","e","n","t"," ","l","e","n","g","t","h",":"," ">>

\* ' characters.'
TextCharacters ==
    <<" ","c","h","a","r","a","c","t","e","r","s",".">>

\* 'Text length: '
TextLengthPrefix ==
    <<"T","e","x","t"," ","l","e","n","g","t","h",":"," ">>

\* ' characters'
CharactersSuffix ==
    <<" ","c","h","a","r","a","c","t","e","r","s">>

Launching == <<"Launching headless browser">>
CrawlComplete == <<"Crawl complete; building metadata">>
CallingGemini == <<"Calling Gemini for summary">>
ConfigurationErrorDetected == <<"Configuration error detected">>
LlmBlockedCrawlerOnly == <<"LLM blocked the content; using crawler-only summary">>
LlmBlockedBasic == <<"LLM blocked the content; generating basic summary">>
GeneratingPdf == <<"Generating PDF report">>
ReportSaved == <<"Report saved">>
AnalyzingText == <<"Analyzing text content">>

\* 'text-input'
TextInput ==
    <<"t","e","x","t","-","i","n","p","u","t">>

ServiceResult(url, crawl, analysis, summary, pdf_path) ==
    [url |-> url, crawl |-> crawl, analysis |-> analysis, summary |-> summary,
     pdf_path |-> pdf_path]

\* IsConfigKeyError taking every error that has a text for a credential problem
IsConfigKeyErrorOnAnyText(error_msg) == error_msg # <<>>

\* IsConfigKeyError taking every RuntimeError for a credential problem
IsConfigKeyErrorAlways(error_msg) == TRUE

\* "API_KEY" in error_msg or "API key" in error_msg.lower()
IsConfigKeyError(error_msg) ==
    Contains(error_msg, NeedleAPI_KEY) \/ Contains(Lower(error_msg), NeedleApiKey)

\* "API Key not found" in error_msg or "API key" in error_msg.lower()
IsContentKeyError(error_msg) ==
    Contains(error_msg, NeedleApiKeyNotFound) \/ Contains(Lower(error_msg), NeedleApiKey)

\* RunHandleSummarize without the handler of LLMContentError
RunHandleSummarizeNoContentHandler(outcome, crawl, analysis) ==
    IF outcome.kind = "return"
    THEN [emits |-> <<>>, fallback |-> FALSE, summary |-> outcome]
    ELSE IF IsInstance(outcome.exc[1], "RuntimeError")
    THEN IF IsConfigKeyError(outcome.exc[1].msg)
         THEN [emits |-> <<ConfigurationErrorDetected>>, fallback |-> TRUE,
               summary |-> Returned(build_fallback_summary(crawl, analysis,
                               ReasonConfigPrefix \o outcome.exc[1].msg))]
         ELSE [emits |-> <<ConfigurationErrorDetected>>, fallback |-> FALSE,
               summary |-> outcome]
    ELSE [emits |-> <<>>, fallback |-> FALSE, summary |-> outcome]

\* RunHandleSummarize taking the content fallback without a message
RunHandleSummarizeSilentFallback(outcome, crawl, analysis) ==
    IF outcome.kind = "return"
    THEN [emits |-> <<>>, fallback |-> FALSE, summary |-> outcome]
    ELSE IF IsInstance(outcome.exc[1], "RuntimeError")
    THEN IF IsConfigKeyError(outcome.exc[1].msg)
         THEN [emits |-> <<ConfigurationErrorDetected>>, fallback |-> TRUE,
               summary |-> Returned(build_fallback_summary(crawl, analysis,
                               ReasonConfigPrefix \o outcome.exc[1].msg))]
         ELSE [emits |-> <<ConfigurationErrorDetected>>, fallback |-> FALSE,
               summary |-> outcome]
    ELSE IF IsInstance(outcome.exc[1], "LLMContentError")
    THEN [emits |-> <<>>, fallback |-> TRUE,
          summary |-> Returned(build_fallback_summary(crawl, analysis,
                          IF IsContentKeyError(outcome.exc[1].msg)
                          THEN ReasonKeyPrefix \o outcome.exc[1].msg
                          ELSE outcome.exc[1].msg))]
    ELSE [emits |-> <<>>, fallback |-> FALSE, summary |-> outcome]

\* What the try statement around the summarization call of run does with the
\* call's outcome: the messages emitted, whether the fallback builder was
\* called, and the summary bound or the exception that leaves the statement.
RunHandleSummarize(outcome, crawl, analysis) ==
    IF outcome.kind = "return"
    THEN [emits |-> <<>>, fallback |-> FALSE, summary |-> outcome]
    ELSE IF IsInstance(outcome.exc[1], "RuntimeError")
    THEN IF IsConfigKeyError(outcome.exc[1].msg)
         THEN [emits |-> <<ConfigurationErrorDetected>>, fallback |-> TRUE,
               summary |-> Returned(build_fallback_summary(crawl, analysis,
                               ReasonConfigPrefix \o outcome.exc[1].msg))]
         ELSE [emits |-> <<ConfigurationErrorDetected>>, fallback |-> FALSE,
               summary |-> outcome]
    ELSE IF IsInstance(outcome.exc[1], "LLMContentError")
    THEN [emits |-> <<LlmBlockedCrawlerOnly>>, fallback |-> TRUE,
          summary |-> Returned(build_fallback_summary(crawl, analysis,
                          IF IsContentKeyError(outcome.exc[1].msg)
                          THEN ReasonKeyPrefix \o outcome.exc[1].msg
                          ELSE outcome.exc[1].msg))]
    ELSE [emits |-> <<>>, fallback |-> FALSE, summary |-> outcome]

\* the inline SiteSummary of run_from_text's handlers
TextFallbackSummary(error_msg, text_len, error_info, suggestions) ==
    SiteSummary(
        JStr(TextUnavailablePrefix \o error_msg \o TextContentLength \o IntStr(text_len)
                 \o TextCharacters),
        JStr(DocumentType),
        JObj(<< [k |-> <<"error_info">>, v |-> StrList(error_info)],
                [k |-> <<"content_stats">>,
                 v |-> StrList(<<TextLengthPrefix \o IntStr(text_len) \o CharactersSuffix>>)],
                [k |-> <<"suggestions">>, v |-> StrList(suggestions)] >>),
        PyNone,
        PyNone)

KeyMissingInfo == <<<<"API key is missing or invalid">>>>
KeyMissingSuggestions ==
    << <<"Please set GEMINI_API_KEY in your environment variables or .env file">>,
       <<"Get your API key from https://makersuite.google.com/app/apikey">> >>
NotAnalyzedInfo == <<<<"Content could not be analyzed by LLM">>>>
NotAnalyzedSuggestions == <<<<"Try with different content or check LLM configuration">>>>

\* the same for run_from_text; fallback tells whether an inline summary was built
TextHandleSummarize(outcome, text_len) ==
    IF outcome.kind = "return"
    THEN [emits |-> <<>>, fallback |-> FALSE, summary |-> outcome]
    ELSE IF IsInstance(outcome.exc[1], "RuntimeError")
    THEN IF IsConfigKeyError(outcome.exc[1].msg)
         THEN [emits |-> <<ConfigurationErrorDetected>>, fallback |-> TRUE,
               summary |-> Returned(TextFallbackSummary(outcome.exc[1].msg, text_len,
                               KeyMissingInfo, KeyMissingSuggestions))]
         ELSE [emits |-> <<ConfigurationErrorDetected>>, fallback |-> FALSE,
               summary |-> outcome]
    ELSE IF IsInstance(outcome.exc[1], "LLMContentError")
    THEN [emits |-> <<LlmBlockedBasic>>, fallback |-> TRUE,
          summary |-> Returned(
              IF IsContentKeyError(outcome.exc[1].msg)
              THEN TextFallbackSummary(outcome.exc[1].msg, text_len,
                                       KeyMissingInfo, KeyMissingSuggestions)
              ELSE TextFallbackSummary(outcome.exc[1].msg, text_len,
                                       NotAnalyzedInfo, NotAnalyzedSuggestions))]
    ELSE [emits |-> <<>>, fallback |-> FALSE, summary |-> outcome]

\* a synthetic analysis that counts no page
DummyAnalysisNoPage ==
    [root_url |-> TextInput, total_pages |-> 0, internal_links |-> 0,
     external_links |-> 0, top_headings |-> <<>>, keywords |-> <<>>, ctas |-> <<>>,
     page_summaries |-> <<>>]

\* AnalysisSummary of run_from_text
DummyAnalysis ==
    [root_url |-> TextInput, total_pages |-> 1, internal_links |-> 0,
     external_links |-> 0, top_headings |-> <<>>, keywords |-> <<>>, ctas |-> <<>>,
     page_summaries |-> <<>>]

(***************************************************************************)
(* Inputs: what the collaborators outside this code base can do            *)
(***************************************************************************)

\* 'Cannot send a request, as the client has been closed.'
MsgClientClosed ==
    <<"C","a","n","n","o","t"," ","s","e","n","d"," ","a"," ","r","e","q","u","e","s","t",",",
      " ","a","s"," ","t","h","e"," ","c","l","i","e","n","t"," ","h","a","s"," ","b","e","e",
      "n"," ","c","l","o","s","e","d",".">>

\* 'API key not valid. Please pass a valid API key.'
DetailKeyNotValid ==
    <<"A","P","I"," ","k","e","y"," ","n","o","t"," ","v","a","l","i","d","."," ","P","l","e",
      "a","s","e"," ","p","a","s","s"," ","a"," ","v","a","l","i","d"," ","A","P","I"," ","k",
      "e","y",".">>

\* 'API Key not found. Please pass a valid API key.'
DetailKeyNotFound ==
    <<"A","P","I"," ","K","e","y"," ","n","o","t"," ","f","o","u","n","d","."," ","P","l","e",
      "a","s","e"," ","p","a","s","s"," ","a"," ","v","a","l","i","d"," ","A","P","I"," ","k",
      "e","y",".">>

\* 'Resource has been exhausted (e.g. check quota).'
DetailQuota ==
    <<"R","e","s","o","u","r","c","e"," ","h","a","s"," ","b","e","e","n"," ","e","x","h","a",
      "u","s","t","e","d"," ","(","e",".","g","."," ","c","h","e","c","k"," ","q","u","o","t",
      "a",")",".">>

\* settings.gemini_api_key as the client reads it at the call: unset, blank, set
ApiKeys == {<<>>, <<" ">>, <<"k">>}

OkReply(txt) ==
    [kind |-> "ok", candidates |-> <<[parts |-> <<txt>>, finishReason |-> <<"S","T","O","P">>]>>,
     blockReason |-> <<>>]

ErrorReply(status, message, txt) ==
    [kind |-> "error", status |-> status, message |-> message, text |-> txt]

\* {"overview":"o","sections":{"a":["b"]}}
FullText ==
    <<"{",dq,"o","v","e","r","v","i","e","w",dq,":",dq,"o",dq,",",
      dq,"s","e","c","t","i","o","n","s",dq,":","{",dq,"a",dq,":","[",dq,"b",dq,"]","}","}">>

\* the same, cut inside the second field
CutText == Take(FullText, 32)

\* [1]
ListText == <<"[","1","]">>

\* oops
GarbageText == <<"o","o","p","s">>

\* {"a":1}: an object with none of the fields of a summary
SmallObjectText == <<"{",dq,"a",dq,":","1","}">>

BodyUnavailable == <<"d","o","w","n">>

\* The provider's replies: complete, truncated, bare, non-object and unparseable
\* texts; an empty and a blocked envelope; HTTP 400, 403, 429, a bare 500 and a 503 with a plain body;
\* a timeout and a closed client.
Replies ==
    { OkReply(FullText), OkReply(CutText), OkReply(SmallObjectText), OkReply(ListText),
      OkReply(GarbageText),
      [kind |-> "ok", candidates |-> <<>>, blockReason |-> <<>>],
      [kind |-> "ok",
       candidates |-> <<[parts |-> <<>>, finishReason |-> <<"S","A","F","E","T","Y">>]>>,
       blockReason |-> <<>>],
      ErrorReply(400, <<DetailKeyNotValid>>, <<>>),
      ErrorReply(403, <<DetailKeyNotFound>>, <<>>),
      ErrorReply(429, <<DetailQuota>>, <<>>),
      ErrorReply(500, <<>>, <<>>),
      ErrorReply(503, <<>>, BodyUnavailable),
      [kind |-> "raise", type |-> "ReadTimeout", msg |-> <<>>],
      [kind |-> "raise", type |-> "RuntimeError", msg |-> MsgClientClosed] }

RootUrl == <<"h","t","t","p",":","/","/","x","/">>

\* crawl_site's result with build_analysis's result for it
CrawlCases ==
    { [crawl |-> [pages |-> <<[title |-> <<"T">>, url |-> RootUrl, description |-> <<"d">>]>>],
       analysis |-> [root_url |-> RootUrl, total_pages |-> 1, internal_links |-> 2,
                     external_links |-> 0, top_headings |-> <<>>, keywords |-> <<<<"k">>>>,
                     ctas |-> <<>>,
                     page_summaries |-> <<[title |-> <<"T">>, description |-> <<"d">>]>>]],
      [crawl |-> [pages |-> <<>>],
       analysis |-> [root_url |-> RootUrl, total_pages |-> 0, internal_links |-> 0,
                     external_links |-> 0, top_headings |-> <<>>, keywords |-> <<>>,
                     ctas |-> <<>>, page_summaries |-> <<>>]] }

\* crawl_site raising
CrawlFailure == [type |-> "CrawlError", msg |-> <<"n","a","v">>]

\* report_builder.build: the path of the file written, or the failure raised
RenderOutcomes ==
    { Returned(<<"/","r","/","a",".","p","d","f">>),
      Raised("OSError", <<"d","i","s","k">>) }

\* request.text of the text endpoint
RequestTexts == { <<"h","i">>, <<>> }

\* how many progress messages one crawl emits at most
MaxCrawlMsgs == 2

\* the progress messages of crawl_site
CrawlMsg(n) == <<"Visiting page">> \o IntStr(n)

\* how often the consumer side is cancelled or closed at most
MaxCancels == 2

(***************************************************************************)
(* Inputs of one parser call: the texts a provider can send                *)
(***************************************************************************)

\* the same, pretty-printed over three lines
PrettyObjectText == <<"{",nl," ",dq,"a",dq,":"," ","1",nl,"}">>

\* {"a":"x<U+2028>y"}: U+2028 may stand unescaped inside a JSON string
LineSeparatorText == <<"{",dq,"a",dq,":",dq,"x",ls,"y",dq,"}">>

\* {"a":"}","b":1}
BraceInStringText == <<"{",dq,"a",dq,":",dq,"}",dq,",",dq,"b",dq,":","1","}">>

\* well-formed JSON bodies: objects, and values that are not objects
JsonBodies ==
    { SmallObjectText, PrettyObjectText, FullText, LineSeparatorText, BraceInStringText,
      <<"{","}">>, ListText, <<"1">>, <<dq,"a",dq>>, <<"n","u","l","l">> }

\* the opening fence lines a model writes: ``` and ```json
FenceOpeners == { Fence, Fence \o <<"j","s","o","n">> }

\* a body wrapped in one fenced code block
Fenced(opener, body) == opener \o <<nl>> \o body \o <<nl>> \o Fence

\* the top-level fields (key, text of the value) of the objects that get cut
CutObjects ==
    { << [key |-> <<"a">>, value |-> <<"1">>],
         [key |-> <<"b">>, value |-> <<"[","2",",","3","]">>] >>,
      << [key |-> <<"a">>, value |-> <<dq,"}",dq>>],
         [key |-> <<"b">>, value |-> <<"1">>] >>,
      << [key |-> OverviewKey, value |-> <<dq,"o",dq>>],
         [key |-> <<"s">>, value |-> <<"{",dq,"a",dq,":","[",dq,"b",dq,"]","}">>] >>,
      << [key |-> <<"a">>, value |-> <<"{",dq,"x",dq,":","[","1","]","}">>],
         [key |-> <<"b">>, value |-> <<dq,"y",dq>>],
         [key |-> <<"c">>, value |-> <<"1","2">>] >> }

\* "key":value
FieldText(field) == <<dq>> \o field.key \o <<dq, ":">> \o field.value

\* {"k1":v1,"k2":v2,...}
ObjectText(fields) ==
    <<"{">> \o Join(<<",">>, [i \in 1..Len(fields) |-> FieldText(fields[i])]) \o <<"}">>

\* the position in ObjectText(fields) of the last character of field i
FieldEnd(fields, i) ==
    1 + Len(Join(<<",">>, [j \in 1..i |-> FieldText(fields[j])]))

\* the characters free-form texts are made of
RawAlphabet == { "1", "[", "]", "{", "}", dq, "x", " " }

\* the greatest length of a free-form text
MaxRawLen == 3

RawTexts == UNION { [1..n -> RawAlphabet] : n \in 0..MaxRawLen }

\* how far the long texts reach on either side of the preview limit
LongSlack == 2

\* prose with no brace: a first line, then filler up to the given length
LongText(n) == [i \in 1..n |-> IF i = 3 THEN nl ELSE IF i % 7 = 0 THEN " " ELSE "x"]

LongTexts ==
    { pad \o LongText(n) \o pad :
        n \in (PreviewLimit - LongSlack)..(PreviewLimit + LongSlack),
        pad \in { <<>>, <<" ", nl>> } }

\* the text of an overview as written in JSON and as it reads: plain, with an
\* escaped quote, with an escaped newline
OverviewValues ==
    { [written |-> <<"o">>, reads |-> <<"o">>],
      [written |-> <<"x", bs, dq, "y">>, reads |-> <<"x", dq, "y">>],
      [written |-> <<"x", bs, "n", "y">>, reads |-> <<"x", nl, "y">>] }

\* {x,"overview":"...",  : no cut of it decodes, the overview field is complete
BrokenWithOverview(written) ==
    <<"{","x",",",dq,"o","v","e","r","v","i","e","w",dq,":",dq>> \o written \o <<dq,",">>

\* every input of one parser call, with how it was made
ParserInputs ==
    { [text |-> body, origin |-> [family |-> "bare", body |-> body]] : body \in JsonBodies }
    \cup
    { [text |-> Fenced(opener, body), origin |-> [family |-> "fenced", body |-> body]] :
        opener \in FenceOpeners, body \in JsonBodies \cup {GarbageText} }
    \cup
    UNION { { [text |-> Take(ObjectText(fields), cut),
               origin |-> [family |-> "cut", fields |-> fields, cut |-> cut]] :
              cut \in FieldEnd(fields, 1)..(Len(ObjectText(fields)) - 1) } :
            fields \in CutObjects }
    \cup
    { [text |-> BrokenWithOverview(o.written),
       origin |-> [family |-> "broken", overview |-> o.reads]] : o \in OverviewValues }
    \cup
    { [text |-> raw, origin |-> [family |-> "raw"]] : raw \in RawTexts \cup LongTexts }

(***************************************************************************)
(* Inputs of one fallback-builder call                                     *)
(***************************************************************************)

\* entries of analysis.page_summaries: with a description, with headings
\* only, and with neither title, description nor headings
PageSummaryCases ==
    { [title |-> <<"T">>, description |-> <<"d">>],
      [title |-> <<"U">>, description |-> <<>>, headings |-> << <<"h">>, <<"g">> >>],
      [word_count |-> 5] }

\* the greatest number of page summaries of one analysis
MaxPageSummaries == 4

PageSummaryLists == UNION { [1..n -> PageSummaryCases] : n \in 0..MaxPageSummaries }

\* crawl.pages: none, a page with a title, a page with neither title nor description
CrawlPageCases ==
    { <<>>,
      <<[title |-> <<"T">>, url |-> RootUrl, description |-> <<"d">>]>>,
      <<[title |-> <<>>, url |-> RootUrl, description |-> <<>>]>> }

\* analysis.keywords: none, one, more than the six that are shown
KeywordCases ==
    { <<>>, << <<"k">> >>,
      << <<"a">>, <<"b">>, <<"c">>, <<"d">>, <<"e">>, <<"f">>, <<"g">> >> }

\* analysis.ctas: none, one, more than the five that are shown
CtaCases ==
    { <<>>, << <<"B","u","y">> >>,
      << <<"p">>, <<"q">>, <<"r">>, <<"s">>, <<"t">>, <<"u">> >> }

\* analysis.total_pages
PageCounts == { 0, 12 }

\* the reason handed over by the caller
FallbackReasons == { <<"b","l","o","c","k","e","d">>, <<"n","o"," ","k","e","y">> }

FallbackInputs ==
    { [crawl |-> [pages |-> pages],
       analysis |-> [root_url |-> RootUrl, total_pages |-> total, internal_links |-> 3,
                     external_links |-> 0, top_headings |-> <<>>, keywords |-> keywords,
                     ctas |-> ctas, page_summaries |-> summaries],
       reason |-> reason] :
        pages \in CrawlPageCases, total \in PageCounts, keywords \in KeywordCases,
        ctas \in CtaCases, summaries \in PageSummaryLists, reason \in FallbackReasons }

(***************************************************************************)
(* Inputs of one request for a report file                                 *)
(***************************************************************************)

\* the pieces requested names are made of
NameParts == { <<"a">>, <<"s">>, <<"r">>, <<"r","2">>, <<".",".">> }

\* what stands between two pieces: '/' or the backslash
NameJoints == { <<"/">>, <<bs>> }

\* the greatest number of pieces of a requested name
MaxNameParts == 3

RECURSIVE NamesOf(_)
\* the names of exactly n pieces
NamesOf(n) ==
    IF n = 1 THEN NameParts
    ELSE { head \o joint \o part :
             head \in NamesOf(n - 1), joint \in NameJoints, part \in NameParts }

RequestedNames == UNION { NamesOf(n) : n \in 1..MaxNameParts }


(***************************************************************************)
(* Inputs of one client call after the POST: the envelopes of a 200 reply  *)
(***************************************************************************)

\* the most candidates of an envelope, and the most parts of a candidate
MaxCandidates == 2
MaxParts == 2

\* part.get("text"): missing or empty, an object, prose
PartTexts == { <<>>, SmallObjectText, <<"x">> }

CandidateCases ==
    [parts : UNION { [1..n -> PartTexts] : n \in 0..MaxParts },
     finishReason : { <<>>, <<"S","A","F","E","T","Y">> }]

Envelopes ==
    [kind : {"ok"},
     candidates : UNION { [1..n -> CandidateCases] : n \in 0..MaxCandidates },
     blockReason : { <<>>, <<"S","A","F","E","T","Y">> }]

(***************************************************************************)
(* app/api.py: serialization, events, responses                            *)
(***************************************************************************)

\* '/api/reports/'
ReportsPrefix ==
    <<"/","a","p","i","/","r","e","p","o","r","t","s","/">>

\* the path as it is, directories included
PathWhole(p) == p

\* Path(p).name: the last component of the path
PathName(p) ==
    LET stripped == Take(p, LastOutside(p, {"/"}))
        slashes == {i \in 1..Len(stripped) : stripped[i] = "/"}
    IN  IF slashes = {} THEN stripped
        ELSE Drop(stripped, CHOOSE i \in slashes : \A j \in slashes : j <= i)

\* the metrics of a result that carries no analysis
DefaultMetrics(url) ==
    [root_url |-> url, total_pages |-> 1, internal_links |-> 0, external_links |-> 0,
     top_headings |-> <<>>, keywords |-> <<>>, ctas |-> <<>>, page_summaries |-> <<>>]

\* result.analysis is None when the sequence is empty
_serialize_result(res) ==
    [url |-> res.url,
     summary |-> [overview |-> res.summary.overview,
                  content_type |-> res.summary.content_type,
                  sections |-> res.summary.sections,
                  highlights |-> res.summary.highlights,
                  recommendations |-> res.summary.recommendations],
     metrics |-> IF res.analysis # <<>> THEN res.analysis[1] ELSE DefaultMetrics(res.url),
     pdf_path |-> ReportsPrefix \o PathName(res.pdf_path)]

\* the events of the stream
StatusEvent(message) == [type |-> "status", message |-> message, payload |-> <<>>]
ErrorEvent(exc) == [type |-> "error", message |-> exc.msg, payload |-> <<>>]
SummaryEvent(res) ==
    [type |-> "summary", message |-> <<>>, payload |-> <<_serialize_result(res)>>]

\* a response that reports every failure without its text
RespondWithoutDetail(final) ==
    IF final.kind = "return"
    THEN [status |-> 200, body |-> <<_serialize_result(final.val[1])>>, detail |-> <<>>]
    ELSE [status |-> 500, body |-> <<>>, detail |-> <<>>]

\* analyze / analyze_text: the serialized result, or HTTP 500 carrying str(exc)
Respond(final) ==
    IF final.kind = "return"
    THEN [status |-> 200, body |-> <<_serialize_result(final.val[1])>>, detail |-> <<>>]
    ELSE [status |-> 500, body |-> <<>>, detail |-> final.exc[1].msg]

(***************************************************************************)
(* The run as a task: one action per stretch between two suspensions.      *)
(* queue.put on an unbounded queue and report_builder.build never suspend. *)
(***************************************************************************)

TaskDone == rpc \in {"returned", "raised", "cancelled"}

\* A generator that is ready to resume does so in the loop iteration it became
\* ready in or in the next: the task, which needs an event of its own for each
\* step, takes at most the one step that was already due.
GenReady == gpc \in {"woken", "timedout"}
TaskMayStep == GenReady => lag = 0
TaskStepped == lag' = IF gpc' \in {"woken", "timedout"} THEN 1 ELSE 0

\* a hook whose put waits until the queue is empty
ProgressOnBoundedQueue(msgs) ==
    IF mode = "stream"
    THEN /\ queue = <<>> /\ Len(msgs) <= 1
         /\ queue' = queue \o [i \in 1..Len(msgs) |-> StatusEvent(msgs[i])]
         /\ puts' = puts \o [i \in 1..Len(msgs) |-> StatusEvent(msgs[i])]
         /\ gpc' = IF gpc = "waiting" /\ msgs # <<>> THEN "woken" ELSE gpc
    ELSE UNCHANGED <<gpc, queue, puts>>

\* progress(message) for each message: the hook of /stream puts a status event
\* on the queue, which wakes a getter that is waiting; there is no hook otherwise
Progress(msgs) ==
    IF mode = "stream"
    THEN /\ queue' = queue \o [i \in 1..Len(msgs) |-> StatusEvent(msgs[i])]
         /\ puts' = puts \o [i \in 1..Len(msgs) |-> StatusEvent(msgs[i])]
         /\ gpc' = IF gpc = "waiting" /\ msgs # <<>> THEN "woken" ELSE gpc
    ELSE UNCHANGED <<queue, puts, gpc>>

\* emit(message) for each message
Emit(msgs) ==
    /\ stages' = stages \o msgs
    /\ Progress(msgs)

\* the run ends; a synchronous endpoint awaits it inline and responds
Finish(final) ==
    /\ rpc' = IF final.kind = "return" THEN "returned" ELSE "raised"
    /\ result' = final.val
    /\ error' = final.exc
    /\ response' = IF mode = "stream" THEN response ELSE <<Respond(final)>>

Bump(counts, name, by) == [counts EXCEPT ![name] = @ + by]


(***************************************************************************)
(* utils/document.py: extract_text_from_file                               *)
(*                                                                         *)
(* Bytes are the integers 0..255; a decoded str is a sequence of code      *)
(* points.                                                                 *)
(***************************************************************************)

\* U+FFFD REPLACEMENT CHARACTER
ReplacementChar == 65533

IsContinuation(b) == b >= 128 /\ b <= 191

\* a byte that can start a character
IsLead(b) == b < 128 \/ (b >= 194 /\ b <= 244)

\* how many continuation bytes the lead byte b announces
Utf8Need(b) ==
    IF b < 194 THEN 0
    ELSE IF b <= 223 THEN 1
    ELSE IF b <= 239 THEN 2
    ELSE 3

\* the range the first continuation byte of lead byte b must lie in
Utf8SecondLow(b) == IF b = 224 THEN 160 ELSE IF b = 240 THEN 144 ELSE 128
Utf8SecondHigh(b) == IF b = 237 THEN 159 ELSE IF b = 244 THEN 143 ELSE 191

\* how many bytes of the character that starts at content[i] are well formed
\* (the lead byte included); equal to Utf8Need + 1 for a whole character
Utf8Good(content, i) ==
    LET b == content[i]
        need == Utf8Need(b)
        ok(k) == /\ i + k <= Len(content)
                 /\ IF k = 1
                    THEN content[i + 1] >= Utf8SecondLow(b) /\ content[i + 1] <= Utf8SecondHigh(b)
                    ELSE IsContinuation(content[i + k])
    IN  IF ~IsLead(b) THEN 0
        ELSE 1 + Cardinality({k \in 1..need : \A m \in 1..k : ok(m)})

\* the code point of the whole character of n continuation bytes at content[i]
Utf8CodePoint(content, i, n) ==
    LET b == content[i]
    IN  CASE n = 0 -> b
          [] n = 1 -> (b - 192) * 64 + (content[i + 1] - 128)
          [] n = 2 -> (b - 224) * 4096 + (content[i + 1] - 128) * 64 + (content[i + 2] - 128)
          [] n = 3 -> (b - 240) * 262144 + (content[i + 1] - 128) * 4096
                         + (content[i + 2] - 128) * 64 + (content[i + 3] - 128)

\* content.decode("utf-8") from byte i on; errors = "strict" stops at the
\* first malformed character, errors = "replace" puts U+FFFD for it
RECURSIVE Utf8From(_, _, _)
Utf8From(content, i, errors) ==
    IF i > Len(content) THEN [ok |-> TRUE, val |-> <<>>]
    ELSE LET need == Utf8Need(content[i])
             good == Utf8Good(content, i)
         IN  IF good = need + 1
             THEN LET rest == Utf8From(content, i + need + 1, errors)
                  IN  [ok |-> rest.ok,
                       val |-> <<Utf8CodePoint(content, i, need)>> \o rest.val]
             ELSE IF errors = "strict" THEN [ok |-> FALSE, val |-> <<>>]
             ELSE LET rest == Utf8From(content, i + (IF good = 0 THEN 1 ELSE good), errors)
                  IN  [ok |-> rest.ok, val |-> <<ReplacementChar>> \o rest.val]

\* content.decode("utf-8") and content.decode("utf-8", errors="replace")
DecodeUtf8(content, errors) == Utf8From(content, 1, errors)

\* content.decode("latin-1"): every byte is the code point of its value
DecodeLatin1(content) ==
    [ok |-> TRUE, val |-> [i \in 1..Len(content) |-> content[i]]]

\* str.rfind("."): the 1-based index of the last dot, 0 when there is none
LastDot(name) ==
    IF \E i \in 1..Len(name) : name[i] = "."
    THEN CHOOSE i \in 1..Len(name) : name[i] = "." /\ \A j \in (i + 1)..Len(name) : name[j] # "."
    ELSE 0

\* Path(filename).suffix: from the last dot of the name on, unless the dot
\* is the first or the last character of the name
PathSuffix(filename) ==
    LET name == PathName(filename)
        i == LastDot(name)
    IN  IF 1 < i /\ i < Len(name) THEN SubSeq(name, i, Len(name)) ELSE <<>>

TextExtensions == { <<".","t","x","t">>, <<".","m","d">>, <<".","m","a","r","k","d","o","w","n">> }

PdfExtension == <<".","p","d","f">>

\* 'PDF extraction requires PyPDF2. Install it with: pip install PyPDF2'
MsgPdfRequires == <<"PDF extraction requires PyPDF2. Install it with: pip install PyPDF2">>

\* 'Failed to extract text from PDF: '
MsgPdfFailedPrefix == <<"Failed to extract text from PDF: ">>

\* 'Unsupported file type: '
MsgUnsupportedPrefix == <<"Unsupported file type: ">>

\* '. Supported types: .txt, .md, .pdf'
MsgSupportedTypes == <<". Supported types: .txt, .md, .pdf">>

\* L15-22: the chain of the text files
DecodeTextFile(content) ==
    IF DecodeUtf8(content, "strict").ok THEN Returned(DecodeUtf8(content, "strict").val)
    ELSE IF DecodeLatin1(content).ok THEN Returned(DecodeLatin1(content).val)
    ELSE Returned(DecodeUtf8(content, "replace").val)

\* L44-53: the chain of the other files
DecodeOtherFile(content, file_extension) ==
    IF DecodeUtf8(content, "strict").ok THEN Returned(DecodeUtf8(content, "strict").val)
    ELSE IF DecodeLatin1(content).ok THEN Returned(DecodeLatin1(content).val)
    ELSE Raised("RuntimeError", MsgUnsupportedPrefix \o file_extension \o MsgSupportedTypes)

\* L25-42: what PyPDF2 does with the bytes is the library's; pdf is one of
\* its outcomes: not installed, a failure, or the texts of the pages
ExtractPdf(pdf) ==
    CASE pdf.kind = "missing" -> Raised("RuntimeError", MsgPdfRequires)
      [] pdf.kind = "failed" -> Raised("RuntimeError", MsgPdfFailedPrefix \o pdf.msg)
      [] pdf.kind = "pages" -> Returned(Join(<<10, 10>>, pdf.pages))

extract_text_from_file(file, pdf) ==
    LET content == file.content
        file_extension == Lower(PathSuffix(file.filename))
    IN  IF file_extension \in TextExtensions THEN DecodeTextFile(content)
        ELSE IF file_extension = PdfExtension THEN ExtractPdf(pdf)
        ELSE DecodeOtherFile(content, file_extension)

\* RunTail with a failed summarize request sent once more before it is handled
RunTailResending(url, c, reply, outcome, render, pre, llm_calls) ==
    LET h == RunHandleSummarize(outcome, c.crawl, c.analysis)
        fb == IF h.fallback THEN 1 ELSE 0
    IN  /\ llmOutcome' = <<outcome, reply>>
        /\ IF h.summary.kind = "raise"
           THEN /\ Emit(pre \o h.emits)
                /\ calls' = Bump(Bump(calls, "llm", llm_calls + (IF outcome.kind = "raise" THEN 1 ELSE 0)), "fallback", fb)
                /\ Finish(h.summary)
           ELSE IF render.kind = "raise"
           THEN /\ Emit(pre \o h.emits \o <<GeneratingPdf>>)
                /\ calls' = Bump(Bump(Bump(calls, "llm", llm_calls + (IF outcome.kind = "raise" THEN 1 ELSE 0)), "fallback", fb),
                                 "render", 1)
                /\ Finish(render)
           ELSE /\ Emit(pre \o h.emits \o <<GeneratingPdf, ReportSaved>>)
                /\ calls' = Bump(Bump(Bump(calls, "llm", llm_calls + (IF outcome.kind = "raise" THEN 1 ELSE 0)), "fallback", fb),
                                 "render", 1)
                /\ Finish(Returned(ServiceResult(url, <<c.crawl>>, <<c.analysis>>,
                                                 h.summary.val[1], render.val[1])))

\* service.py L44-78 from the outcome of the summarization call on: the
\* handlers, the report, the return.  pre are the messages emitted before.
RunTail(url, c, reply, outcome, render, pre, llm_calls) ==
    LET h == RunHandleSummarize(outcome, c.crawl, c.analysis)
        fb == IF h.fallback THEN 1 ELSE 0
    IN  /\ llmOutcome' = <<outcome, reply>>
        /\ IF h.summary.kind = "raise"
           THEN /\ Emit(pre \o h.emits)
                /\ calls' = Bump(Bump(calls, "llm", llm_calls), "fallback", fb)
                /\ Finish(h.summary)
           ELSE IF render.kind = "raise"
           THEN /\ Emit(pre \o h.emits \o <<GeneratingPdf>>)
                /\ calls' = Bump(Bump(Bump(calls, "llm", llm_calls), "fallback", fb),
                                 "render", 1)
                /\ Finish(render)
           ELSE /\ Emit(pre \o h.emits \o <<GeneratingPdf, ReportSaved>>)
                /\ calls' = Bump(Bump(Bump(calls, "llm", llm_calls), "fallback", fb),
                                 "render", 1)
                /\ Finish(Returned(ServiceResult(url, <<c.crawl>>, <<c.analysis>>,
                                                 h.summary.val[1], render.val[1])))

\* service.py L89-162, likewise for run_from_text
TextTail(txt, reply, outcome, render, pre, llm_calls) ==
    LET h == TextHandleSummarize(outcome, Len(txt))
        fb == IF h.fallback THEN 1 ELSE 0
    IN  /\ llmOutcome' = <<outcome, reply>>
        /\ IF h.summary.kind = "raise"
           THEN /\ Emit(pre \o h.emits)
                /\ calls' = Bump(Bump(calls, "llm", llm_calls), "fallback", fb)
                /\ Finish(h.summary)
           ELSE IF render.kind = "raise"
           THEN /\ Emit(pre \o h.emits \o <<GeneratingPdf>>)
                /\ calls' = Bump(Bump(Bump(calls, "llm", llm_calls), "fallback", fb),
                                 "render", 1)
                /\ Finish(render)
           ELSE /\ Emit(pre \o h.emits \o <<GeneratingPdf, ReportSaved>>)
                /\ calls' = Bump(Bump(Bump(calls, "llm", llm_calls), "fallback", fb),
                                 "render", 1)
                /\ Finish(Returned(ServiceResult(TextInput, <<>>, <<DummyAnalysis>>,
                                                 h.summary.val[1], render.val[1])))

\* gemini_client.py L31-32, L73-74: no request is sent without a key
NotSent == [kind |-> "unsent"]

KeyMissing == apiKey = <<>> \/ Strip(apiKey) = <<>>

\* a block exit that leaves the session as it is
SessionKept(s) == s

\* run L40: leaving the "async with" block, by return or by exception, runs
\* the session's exit
SessionExit(s) == IF s = "open" THEN "closed" ELSE s

\* run L39-41: the first message, the browser session, the call of crawl_site
RunStart ==
    /\ rpc = "created" /\ mode \in {"stream", "analyze"} /\ ~cancelReq /\ TaskMayStep
    /\ Emit(<<Launching>>)
    /\ session' = "open"
    /\ calls' = Bump(calls, "crawl", 1)
    /\ rpc' = "crawling"
    /\ UNCHANGED <<mode, request, delivered, cancelled, response, apiKey, cancelReq,
                   crawlMsgs, crawled, llmOutcome, result, error, parserVars, fallbackVars, reportVars, uploadVars>>
    /\ TaskStepped

\* crawl_site reports progress through the hook it was given
CrawlProgress ==
    /\ rpc = "crawling" /\ mode = "stream" /\ ~cancelReq /\ TaskMayStep
    /\ crawlMsgs < MaxCrawlMsgs
    /\ crawlMsgs' = crawlMsgs + 1
    /\ Progress(<<CrawlMsg(crawlMsgs + 1)>>)
    /\ UNCHANGED <<mode, request, delivered, cancelled, response, rpc, apiKey, cancelReq,
                   session, stages, calls, crawled, llmOutcome, result, error,
                   parserVars, fallbackVars, reportVars, uploadVars>>
    /\ TaskStepped

\* crawl_site raises: the session is released and the run ends in error
CrawlRaise ==
    /\ rpc = "crawling" /\ ~cancelReq /\ TaskMayStep
    /\ session' = SessionExit(session)
    /\ Finish(Raised(CrawlFailure.type, CrawlFailure.msg))
    /\ UNCHANGED <<mode, request, gpc, queue, puts, delivered, cancelled, apiKey, cancelReq,
                   stages, calls, crawlMsgs, crawled, llmOutcome, parserVars, fallbackVars, reportVars, uploadVars>>
    /\ TaskStepped

\* crawl_site returns: run L41-46 up to the POST, or, when the credential check
\* of summarize_site fails at once, through to the end of run
CrawlReturn ==
    /\ rpc = "crawling" /\ ~cancelReq /\ TaskMayStep
    /\ session' = SessionExit(session)
    /\ \E c \in CrawlCases :
        /\ crawled' = <<c>>
        /\ IF KeyMissing
           THEN \E render \in RenderOutcomes :
                    RunTail(request, c, NotSent, summarize_site(apiKey, OkReply(FullText)), render,
                            <<CrawlComplete, CallingGemini>>, 1)
           ELSE /\ Emit(<<CrawlComplete, CallingGemini>>)
                /\ calls' = Bump(calls, "llm", 1)
                /\ rpc' = "summarizing"
                /\ UNCHANGED <<llmOutcome, result, error, response>>
    /\ UNCHANGED <<mode, request, delivered, cancelled, apiKey, cancelReq, crawlMsgs,
                   parserVars, fallbackVars, reportVars, uploadVars>>
    /\ TaskStepped

\* the POST of summarize_site completes: run L46-78
SummarizeDone ==
    /\ rpc = "summarizing" /\ mode \in {"stream", "analyze"} /\ ~cancelReq /\ TaskMayStep
    /\ \E reply \in Replies, render \in RenderOutcomes :
           RunTail(request, crawled[1], reply, summarize_site(apiKey, reply), render, <<>>, 0)
    /\ UNCHANGED <<mode, request, delivered, cancelled, apiKey, cancelReq, session,
                   crawlMsgs, crawled, parserVars, fallbackVars, reportVars, uploadVars>>
    /\ TaskStepped

\* run_from_text L88-90 up to the POST, or through to the end likewise
TextStart ==
    /\ rpc = "created" /\ mode = "analyze_text" /\ TaskMayStep
    /\ IF KeyMissing
       THEN \E render \in RenderOutcomes :
                TextTail(request, NotSent, summarize_text(apiKey, OkReply(FullText)), render,
                         <<AnalyzingText>>, 1)
       ELSE /\ Emit(<<AnalyzingText>>)
            /\ calls' = Bump(calls, "llm", 1)
            /\ rpc' = "summarizing"
            /\ UNCHANGED <<llmOutcome, result, error, response>>
    /\ UNCHANGED <<mode, request, delivered, cancelled, apiKey, cancelReq, session,
                   crawlMsgs, crawled, parserVars, fallbackVars, reportVars, uploadVars>>
    /\ TaskStepped

\* the POST of summarize_text completes: run_from_text L90-162
TextSummarizeDone ==
    /\ rpc = "summarizing" /\ mode = "analyze_text" /\ TaskMayStep
    /\ \E reply \in Replies, render \in RenderOutcomes :
           TextTail(request, reply, summarize_text(apiKey, reply), render, <<>>, 0)
    /\ UNCHANGED <<mode, request, delivered, cancelled, apiKey, cancelReq, session,
                   crawlMsgs, crawled, parserVars, fallbackVars, reportVars, uploadVars>>
    /\ TaskStepped

\* task.cancel() takes effect at the suspension the task is in: CancelledError
\* unwinds run, releasing an open session on the way
ProducerCancelled ==
    /\ cancelReq /\ rpc \in {"created", "crawling", "summarizing"} /\ TaskMayStep
    /\ rpc' = "cancelled"
    /\ session' = SessionExit(session)
    /\ UNCHANGED <<mode, request, gpc, queue, puts, delivered, cancelled, response, apiKey,
                   cancelReq, stages, calls,
                   crawlMsgs, crawled, llmOutcome, result, error, parserVars, fallbackVars, reportVars, uploadVars>>
    /\ TaskStepped


(***************************************************************************)
(* Inputs of one text extraction                                           *)
(***************************************************************************)

\* the bytes of an upload: 'A', the two bytes of U+00E9 in UTF-8, and 0xFF,
\* which no UTF-8 text holds
ByteValues == { 65, 195, 169, 255 }

\* the most bytes of an upload
MaxBytes == 3

UploadContents == UNION { [1..n -> ByteValues] : n \in 0..MaxBytes }

\* file.filename: text files, a PDF, other types, no suffix, no name
UploadNames ==
    { <<"a",".","t","x","t">>, <<"a",".","M","D">>, <<"a",".","m","a","r","k","d","o","w","n">>,
      <<"a",".","p","d","f">>, <<"a",".","b","i","n">>, <<"d",".","v","/","a">>, <<>> }

\* what the PDF library does
PdfOutcomes ==
    { [kind |-> "missing"], [kind |-> "failed", msg |-> <<"EOF marker not found">>],
      [kind |-> "pages", pages |-> <<>>],
      [kind |-> "pages", pages |-> << <<65>>, <<>>, <<65>> >>] }

Uploads == [filename : UploadNames, content : UploadContents]

(***************************************************************************)
(* app/api.py: stream.event_generator, one action per resumption           *)
(*                                                                         *)
(* gpc: "created"        not yet iterated                                  *)
(*      "waiting"        in wait_for(queue.get()), queue empty             *)
(*      "woken"          in wait_for, an item is there for the getter      *)
(*      "timedout"       in wait_for, the 0.2 s timer has fired            *)
(*      "yield_status"   suspended at the yield of L98                     *)
(*      "await_task"     suspended at `await task` of L108                 *)
(*      "yield_terminal" suspended at the yield of L112 or L115            *)
(*      "finished"       the generator has ended                           *)
(***************************************************************************)

\* AwaitTask with a failed run ending the stream silently: no error event
AwaitTaskSilentOnError ==
    CASE rpc = "returned" ->
            /\ gpc' = "yield_terminal"
            /\ delivered' = Append(delivered, SummaryEvent(result[1]))
      [] rpc \in {"raised", "cancelled"} ->
            /\ gpc' = "finished"
            /\ UNCHANGED delivered
      [] OTHER ->
            /\ gpc' = "await_task"
            /\ UNCHANGED delivered

\* L107-115: `result = await task` with the task as it is now
AwaitTask ==
    CASE rpc = "returned" ->
            /\ gpc' = "yield_terminal"
            /\ delivered' = Append(delivered, SummaryEvent(result[1]))
      [] rpc = "raised" ->
            /\ gpc' = "yield_terminal"
            /\ delivered' = Append(delivered, ErrorEvent(error[1]))
      [] rpc = "cancelled" ->
            /\ gpc' = "finished"
            /\ UNCHANGED delivered
      [] OTHER ->
            /\ gpc' = "await_task"
            /\ UNCHANGED delivered

\* a loop that leaves as soon as the queue is empty
LoopTopLeavesOnEmptyQueue ==
    IF queue = <<>> THEN AwaitTask
    ELSE /\ gpc' = "woken"
         /\ UNCHANGED delivered

\* L93-97: the top of the loop
LoopTop ==
    IF TaskDone /\ queue = <<>> THEN AwaitTask
    ELSE /\ gpc' = IF queue # <<>> THEN "woken" ELSE "waiting"
         /\ UNCHANGED delivered

\* the first __anext__: L85-97
GenStart ==
    /\ mode = "stream" /\ gpc = "created"
    /\ rpc' = "created"
    /\ gpc' = "waiting"
    /\ UNCHANGED <<mode, request, queue, puts, delivered, cancelled, response, apiKey,
                   cancelReq, session, stages, calls, crawlMsgs, crawled, llmOutcome,
                   result, error, parserVars, fallbackVars, reportVars, uploadVars>>
    /\ lag' = 0

\* the 0.2 s timer of wait_for fires before an item has arrived; the first
\* step of the task, due since create_task, has been taken by then
TimerFire ==
    /\ gpc = "waiting" /\ rpc # "created"
    /\ gpc' = "timedout"
    /\ UNCHANGED <<mode, request, queue, puts, delivered, cancelled, response, runVars,
                   parserVars, fallbackVars, reportVars, uploadVars>>
    /\ lag' = 0

\* wait_for returns the item: L97-98
GenResumeItem ==
    /\ gpc = "woken"
    /\ delivered' = Append(delivered, Head(queue))
    /\ queue' = Tail(queue)
    /\ gpc' = "yield_status"
    /\ UNCHANGED <<mode, request, puts, cancelled, response, runVars, parserVars,
                   fallbackVars, reportVars, uploadVars>>
    /\ lag' = 0

\* wait_for raises TimeoutError; an item put since the timer fired stays in
\* the queue: L99-102, then the top of the loop or the break
GenResumeTimeout ==
    /\ gpc = "timedout"
    /\ IF TaskDone THEN AwaitTask ELSE LoopTop
    /\ UNCHANGED <<mode, request, queue, puts, cancelled, response, runVars, parserVars,
                   fallbackVars, reportVars, uploadVars>>
    /\ lag' = 0

\* __anext__ at the yield of a status event: back to the top of the loop
GenNext ==
    /\ gpc = "yield_status"
    /\ LoopTop
    /\ UNCHANGED <<mode, request, queue, puts, cancelled, response, runVars, parserVars,
                   fallbackVars, reportVars, uploadVars>>
    /\ lag' = 0

\* the awaited task finishes: L108-115
GenTaskDone ==
    /\ gpc = "await_task" /\ TaskDone
    /\ AwaitTask
    /\ UNCHANGED <<mode, request, queue, puts, cancelled, response, runVars, parserVars,
                   fallbackVars, reportVars, uploadVars>>
    /\ lag' = 0

\* __anext__ at the yield of the terminal event: the generator ends
GenNextAfterTerminal ==
    /\ gpc = "yield_terminal"
    /\ gpc' = "finished"
    /\ UNCHANGED <<mode, request, queue, puts, delivered, cancelled, response, runVars,
                   parserVars, fallbackVars, reportVars, uploadVars>>
    /\ lag' = 0

\* CancelledError reaches the generator inside wait_for: L103-105, then L107
GenCancelAtWait ==
    /\ gpc \in {"waiting", "woken", "timedout"} /\ cancelled < MaxCancels
    /\ cancelled' = cancelled + 1
    /\ cancelReq' = (cancelReq \/ ~TaskDone)
    /\ AwaitTask
    /\ UNCHANGED <<mode, request, queue, puts, response, rpc, apiKey, session, stages,
                   calls, crawlMsgs, crawled, llmOutcome, result, error, parserVars,
                   fallbackVars, reportVars, uploadVars>>
    /\ lag' = 0

\* athrow(CancelledError) at the yield of a status event: L103-105, then L107
GenThrowCancelAtYield ==
    /\ gpc = "yield_status" /\ cancelled < MaxCancels
    /\ cancelled' = cancelled + 1
    /\ cancelReq' = (cancelReq \/ ~TaskDone)
    /\ AwaitTask
    /\ UNCHANGED <<mode, request, queue, puts, response, rpc, apiKey, session, stages,
                   calls, crawlMsgs, crawled, llmOutcome, result, error, parserVars,
                   fallbackVars, reportVars, uploadVars>>
    /\ lag' = 0

\* aclose() at the yield of a status event: GeneratorExit is raised at L98,
\* which no handler of the generator catches
GenCloseAtYield ==
    /\ gpc = "yield_status" /\ cancelled < MaxCancels
    /\ cancelled' = cancelled + 1
    /\ gpc' = "finished"
    /\ UNCHANGED <<mode, request, queue, puts, delivered, response, runVars, parserVars,
                   fallbackVars, reportVars, uploadVars>>
    /\ lag' = 0

\* the consumer is cancelled while the generator awaits the task: awaiting a
\* task passes the cancellation on to it, and the generator resumes once the
\* task has finished (GenTaskDone)
GenCancelAtAwaitTask ==
    /\ gpc = "await_task" /\ ~TaskDone /\ cancelled < MaxCancels
    /\ cancelled' = cancelled + 1
    /\ cancelReq' = TRUE
    /\ UNCHANGED <<mode, request, gpc, queue, puts, delivered, response, rpc, apiKey,
                   session, stages, calls, crawlMsgs, crawled, llmOutcome, result, error,
                   parserVars, fallbackVars, reportVars, uploadVars>>
    /\ lag' = 0

\* aclose() or athrow(CancelledError) at the yield of the terminal event: the
\* task is done; L116-122 at most awaits it again
GenCancelAtTerminal ==
    /\ gpc = "yield_terminal" /\ cancelled < MaxCancels
    /\ cancelled' = cancelled + 1
    /\ gpc' = "finished"
    /\ UNCHANGED <<mode, request, queue, puts, delivered, response, runVars, parserVars,
                   fallbackVars, reportVars, uploadVars>>
    /\ lag' = 0

(***************************************************************************)
(* app/api.py: download_report                                             *)
(*                                                                         *)
(* A path is the sequence of its components below the root.  pathlib reads *)
(* a name with the separators of the platform it runs on: '/' on POSIX,    *)
(* '/' and the backslash on Windows.                                       *)
(***************************************************************************)

Platforms == {"posix", "windows"}

PathSeparators(platform) == IF platform = "windows" THEN {"/", bs} ELSE {"/"}

\* settings.ensure_report_dir(), resolved: /d/r
ReportDir == << <<"d">>, <<"r">> >>

\* the files on disk: one report, one file in the sibling directory /d/r2, one
\* file in the parent directory
Files == { ReportDir \o << <<"a">> >>, << <<"d">>, <<"r","2">>, <<"s">> >>, << <<"d">>, <<"s">> >> }

\* the directories on disk
Directories == { <<>>, << <<"d">> >>, ReportDir, << <<"d">>, <<"r","2">> >> }

\* Path.exists()
Exists(path) == path \in Files \cup Directories

RECURSIVE SplitPath(_, _)
\* the components of a name, empty ones dropped
SplitPath(name, seps) ==
    IF name = <<>> THEN <<>>
    ELSE IF FirstInside(name, 1, seps) = 1 THEN SplitPath(Tail(name), seps)
    ELSE <<Take(name, FirstInside(name, 1, seps) - 1)>>
             \o SplitPath(Drop(name, FirstInside(name, 1, seps) - 1), seps)

RECURSIVE Resolve(_, _)
\* Path.resolve() with no symbolic link on the way: '.' is dropped, '..' goes up
Resolve(base, parts) ==
    IF parts = <<>> THEN base
    ELSE IF Head(parts) = <<".">> THEN Resolve(base, Tail(parts))
    ELSE IF Head(parts) = <<".", ".">>
    THEN Resolve(IF base = <<>> THEN base ELSE Take(base, Len(base) - 1), Tail(parts))
    ELSE Resolve(base \o <<Head(parts)>>, Tail(parts))

\* (report_dir / file_name).resolve(): a name that starts at the root replaces report_dir
SafePath(platform, file_name) ==
    Resolve(IF file_name # <<>> /\ file_name[1] \in PathSeparators(platform)
            THEN <<>> ELSE ReportDir,
            SplitPath(file_name, PathSeparators(platform)))

\* str(path)
PathStr(platform, path) ==
    IF path = <<>> THEN <<(IF platform = "windows" THEN bs ELSE "/")>>
    ELSE Concat([i \in 1..Len(path) |->
                    <<(IF platform = "windows" THEN bs ELSE "/")>> \o path[i]])

NotFound == [status |-> 404, path |-> <<>>]

\* FileResponse(path): the file is sent; a path that is no regular file makes the
\* response fail while it is sent
FileResponse(path) ==
    IF path \in Files THEN [status |-> 200, path |-> path] ELSE [status |-> 500, path |-> <<>>]

\* L154-160
download_report(platform, file_name) ==
    IF \/ ~StartsAt(PathStr(platform, SafePath(platform, file_name)), 1,
                    PathStr(platform, ReportDir))
       \/ ~Exists(SafePath(platform, file_name))
    THEN NotFound
    ELSE FileResponse(SafePath(platform, file_name))

\* L153: the route /reports/{file_name} matches one non-empty path segment
RouteMatches(file_name) == file_name # <<>> /\ ~Contains(file_name, <<"/">>)

(***************************************************************************)
(* Specification of one request: /stream, /analyze or /analyze-text        *)
(***************************************************************************)

ParserIdle ==
    /\ text = <<>> /\ origin = [family |-> "none"] /\ ppc = "idle" /\ parsed = <<>>
    /\ built = <<>>

FallbackIdle ==
    /\ fbArgs = <<>> /\ fbpc = "idle" /\ fbOut = <<>>

ReportIdle ==
    /\ dlReq = <<>> /\ dlpc = "idle" /\ dlOut = <<>>

UploadIdle ==
    /\ upFile = <<>> /\ uppc = "idle" /\ upOut = <<>>

RequestIdle ==
    /\ mode = "none" /\ request = <<>> /\ gpc = "none" /\ lag = 0 /\ queue = <<>> /\ puts = <<>>
    /\ delivered = <<>> /\ cancelled = 0 /\ response = <<>>
    /\ rpc = "idle" /\ apiKey = <<>> /\ cancelReq = FALSE /\ session = "none"
    /\ stages = <<>> /\ calls = [crawl |-> 0, llm |-> 0, fallback |-> 0, render |-> 0]
    /\ crawlMsgs = 0 /\ crawled = <<>> /\ llmOutcome = <<>> /\ result = <<>>
    /\ error = <<>>

Init ==
    /\ mode \in {"stream", "analyze", "analyze_text"}
    /\ request \in (IF mode = "analyze_text" THEN RequestTexts ELSE {RootUrl})
    /\ apiKey \in ApiKeys
    /\ gpc = IF mode = "stream" THEN "created" ELSE "none"
    /\ lag = 0
    /\ rpc = IF mode = "stream" THEN "idle" ELSE "created"
    /\ queue = <<>> /\ puts = <<>> /\ delivered = <<>>
    /\ cancelled = 0 /\ response = <<>> /\ cancelReq = FALSE
    /\ session = "none" /\ stages = <<>>
    /\ calls = [crawl |-> 0, llm |-> 0, fallback |-> 0, render |-> 0]
    /\ crawlMsgs = 0 /\ crawled = <<>> /\ llmOutcome = <<>>
    /\ result = <<>> /\ error = <<>>
    /\ ParserIdle /\ FallbackIdle /\ ReportIdle /\ UploadIdle

Next ==
    \/ RunStart \/ CrawlProgress \/ CrawlRaise \/ CrawlReturn \/ SummarizeDone
    \/ TextStart \/ TextSummarizeDone \/ ProducerCancelled
    \/ GenStart \/ TimerFire \/ GenResumeItem \/ GenResumeTimeout \/ GenNext
    \/ GenTaskDone \/ GenNextAfterTerminal
    \/ GenCancelAtWait \/ GenThrowCancelAtYield \/ GenCloseAtYield
    \/ GenCancelAtAwaitTask \/ GenCancelAtTerminal

Spec == Init /\ [][Next]_vars

\* The event loop runs every callback that is ready, the 0.2 s timer of
\* wait_for expires, and the response keeps asking the generator for the next
\* event: the steps of the generator are taken once they are due.
ConsumerFairness ==
    /\ WF_vars(TimerFire) /\ WF_vars(GenResumeItem) /\ WF_vars(GenResumeTimeout)
    /\ WF_vars(GenNext) /\ WF_vars(GenTaskDone) /\ WF_vars(GenNextAfterTerminal)

SpecFair == Init /\ [][Next]_vars /\ ConsumerFairness

(***************************************************************************)
(* Specification of one parser call, as GeminiClient.summarize_site makes  *)
(* it: _parse_summary_text, then SiteSummary.from_llm_payload              *)
(***************************************************************************)

ParserInit ==
    /\ \E input \in ParserInputs : text = input.text /\ origin = input.origin
    /\ ppc = "input" /\ parsed = <<>> /\ built = <<>>
    /\ RequestIdle /\ FallbackIdle /\ ReportIdle /\ UploadIdle

\* L69: parsed_payload = _parse_summary_text(text)
ParseSummaryText ==
    /\ ppc = "input"
    /\ parsed' = <<_parse_summary_text(text)>>
    /\ ppc' = "parsed"
    /\ UNCHANGED <<text, origin, built>>
    /\ UNCHANGED <<mode, request, response, streamVars, runVars, fallbackVars, reportVars, uploadVars>>

\* L70: return SiteSummary.from_llm_payload(parsed_payload)
BuildFromPayload ==
    /\ ppc = "parsed"
    /\ parsed[1].kind = "return"
    /\ built' = <<from_llm_payload(parsed[1].val[1])>>
    /\ ppc' = "built"
    /\ UNCHANGED <<text, origin, parsed>>
    /\ UNCHANGED <<mode, request, response, streamVars, runVars, fallbackVars, reportVars, uploadVars>>

ParserNext == ParseSummaryText \/ BuildFromPayload

SpecParser == ParserInit /\ [][ParserNext]_vars

(***************************************************************************)
(* Specification of one fallback-builder call                              *)
(***************************************************************************)

FallbackInit ==
    /\ fbArgs \in FallbackInputs
    /\ fbpc = "input" /\ fbOut = <<>>
    /\ RequestIdle /\ ParserIdle /\ ReportIdle /\ UploadIdle

\* build_fallback_summary(crawl, analysis, reason=reason)
BuildFallbackSummary ==
    /\ fbpc = "input"
    /\ fbOut' = <<build_fallback_summary(fbArgs.crawl, fbArgs.analysis, fbArgs.reason)>>
    /\ fbpc' = "built"
    /\ UNCHANGED fbArgs
    /\ UNCHANGED <<mode, request, response, streamVars, runVars, parserVars, reportVars, uploadVars>>

FallbackNext == BuildFallbackSummary

SpecFallback == FallbackInit /\ [][FallbackNext]_vars

(***************************************************************************)
(* Specification of one request GET /reports/<name>                        *)
(***************************************************************************)

ReportInit ==
    /\ dlReq \in [platform : Platforms, name : RequestedNames]
    /\ dlpc = "input" /\ dlOut = <<>>
    /\ RequestIdle /\ ParserIdle /\ FallbackIdle /\ UploadIdle

\* the route matches: download_report runs
DownloadReport ==
    /\ dlpc = "input"
    /\ RouteMatches(dlReq.name)
    /\ dlOut' = <<download_report(dlReq.platform, dlReq.name)>>
    /\ dlpc' = "done"
    /\ UNCHANGED dlReq
    /\ UNCHANGED <<mode, request, response, streamVars, runVars, parserVars, fallbackVars, uploadVars>>

\* no route matches a name that holds a '/': the router answers 404
RouteNotFound ==
    /\ dlpc = "input"
    /\ ~RouteMatches(dlReq.name)
    /\ dlOut' = <<NotFound>>
    /\ dlpc' = "done"
    /\ UNCHANGED dlReq
    /\ UNCHANGED <<mode, request, response, streamVars, runVars, parserVars, fallbackVars, uploadVars>>

ReportNext == DownloadReport \/ RouteNotFound

SpecReport == ReportInit /\ [][ReportNext]_vars


(***************************************************************************)
(* Specification of one client call after a 200 reply: summarize_site      *)
(* L67-70, _extract_text, then the parser, then from_llm_payload           *)
(***************************************************************************)

ClientInit ==
    /\ \E payload \in Envelopes : origin = [family |-> "envelope", payload |-> payload]
    /\ text = <<>> /\ ppc = "envelope" /\ parsed = <<>> /\ built = <<>>
    /\ RequestIdle /\ FallbackIdle /\ ReportIdle /\ UploadIdle

\* L68: text = _extract_text(payload); the error it raises leaves summarize_site
ExtractText ==
    /\ ppc = "envelope"
    /\ IF _extract_text(origin.payload).kind = "return"
       THEN /\ text' = _extract_text(origin.payload).val[1]
            /\ ppc' = "input"
            /\ UNCHANGED built
       ELSE /\ built' = <<_extract_text(origin.payload)>>
            /\ ppc' = "built"
            /\ UNCHANGED text
    /\ UNCHANGED <<origin, parsed>>
    /\ UNCHANGED <<mode, request, response, streamVars, runVars, fallbackVars, reportVars, uploadVars>>

ClientNext == ExtractText \/ ParseSummaryText \/ BuildFromPayload

SpecClient == ClientInit /\ [][ClientNext]_vars


(***************************************************************************)
(* Specification of one text extraction from an uploaded file              *)
(***************************************************************************)

UploadInit ==
    /\ \E file \in Uploads : upFile = <<file>>
    /\ uppc = "input" /\ upOut = <<>>
    /\ RequestIdle /\ ParserIdle /\ FallbackIdle /\ ReportIdle

\* extract_text_from_file(file)
ExtractTextFromFile ==
    /\ uppc = "input"
    /\ \E pdf \in PdfOutcomes : upOut' = <<extract_text_from_file(upFile[1], pdf)>>
    /\ uppc' = "done"
    /\ UNCHANGED upFile
    /\ UNCHANGED <<mode, request, response, streamVars, runVars, parserVars, fallbackVars,
                   reportVars>>

UploadNext == ExtractTextFromFile

SpecUpload == UploadInit /\ [][UploadNext]_vars

(***************************************************************************)
(* Properties of the streaming endpoint and of the run                     *)
(***************************************************************************)

\* the positions of the terminal events (summary, error) among those yielded
Terminals == {i \in 1..Len(delivered) : delivered[i].type # "status"}

TerminalYielded == gpc \in {"yield_terminal", "finished"}

\* C1: on a stream that is never cancelled, once the terminal event is yielded
\* the status events yielded before it are exactly the events put on the queue,
\* in the order put, and no event is left in the queue.
C1_StatusEventsAllDeliveredInOrder ==
    (mode = "stream" /\ cancelled = 0 /\ TerminalYielded) =>
        /\ delivered # <<>>
        /\ SubSeq(delivered, 1, Len(delivered) - 1) = puts
        /\ queue = <<>>

\* C2: on a stream that is never cancelled, at most one terminal event is
\* yielded and nothing after it; it is the summary of the result when the run
\* returned and an error event carrying the failure text when the run raised;
\* the generator ends only after it.
C2_ExactlyOneTerminalEventLast ==
    (mode = "stream" /\ cancelled = 0) =>
        /\ \A i \in Terminals : i = Len(delivered)
        /\ TerminalYielded <=> Terminals # {}
        /\ TerminalYielded =>
              /\ rpc \in {"returned", "raised"}
              /\ rpc = "returned" =>
                    delivered[Len(delivered)] = SummaryEvent(result[1])
              /\ rpc = "raised" =>
                    /\ delivered[Len(delivered)].type = "error"
                    /\ delivered[Len(delivered)].message = error[1].msg

\* C2 witness: an uncancelled stream that ended with an error event after
\* status events
C2_Witness ==
    /\ mode = "stream" /\ cancelled = 0 /\ gpc = "finished"
    /\ Len(delivered) >= 3
    /\ delivered[Len(delivered)].type = "error"

\* C3: the generator never finishes while the producer task is still running.
C3_GeneratorOutlivedByNoTask ==
    (mode = "stream" /\ gpc = "finished") => TaskDone

\* the failures the run is written to absorb: a content error, and the
\* configuration error of the client
IsContentFailure(exc) == exc.type \in {"GeminiContentError", "LLMContentError"}
IsConfigurationFailure(exc) == exc.type = "RuntimeError" /\ exc.msg = MsgKeyNotConfigured

SummarizeRaised == llmOutcome # <<>> /\ llmOutcome[1].kind = "raise"

\* C4 as stated: whenever the summarization step raised, the run does not end
\* in error unless rendering failed.
C4_EverySummarizeFailureAbsorbed ==
    (SummarizeRaised /\ rpc = "raised") => calls.render = 1

\* C4 amended: whenever the summarization step raised a content error or the
\* configuration error, a fallback summary is substituted and the report is
\* rendered; unless rendering failed the run emits "Report saved" last and
\* returns a result.
C4_ContentAndConfigFailuresAbsorbed ==
    (SummarizeRaised /\ (IsContentFailure(llmOutcome[1].exc[1])
                            \/ IsConfigurationFailure(llmOutcome[1].exc[1]))) =>
        /\ calls.fallback = 1 /\ calls.render = 1
        /\ rpc \in {"returned", "raised"}
        /\ rpc = "returned" =>
              /\ result # <<>>
              /\ stages[Len(stages)] = ReportSaved
              /\ result[1].summary.overview.t = "str"
              /\ Contains(result[1].summary.overview.v, llmOutcome[1].exc[1].msg)
        /\ rpc = "raised" => error[1].type = "OSError"

\* C4 witness: a run that returned although the client raised a content error
C4_Witness ==
    /\ SummarizeRaised /\ IsContentFailure(llmOutcome[1].exc[1])
    /\ rpc = "returned" /\ calls.fallback = 1

\* C5: in run, the fallback builder is called if and only if the summarize
\* call raised the configuration error or a content error; any other failure
\* of the call leaves run as it is, with no fallback and no report.
C5_FallbackExactlyOnConfigOrContent ==
    (mode \in {"stream", "analyze"}) =>
        /\ calls.fallback = 1 <=>
              (SummarizeRaised /\ (IsContentFailure(llmOutcome[1].exc[1])
                                      \/ IsConfigurationFailure(llmOutcome[1].exc[1])))
        /\ calls.fallback \in {0, 1}
        /\ (SummarizeRaised /\ ~IsContentFailure(llmOutcome[1].exc[1])
                             /\ ~IsConfigurationFailure(llmOutcome[1].exc[1])) =>
              /\ rpc = "raised" /\ error = llmOutcome[1].exc /\ calls.render = 0
              /\ result = <<>>

\* C5 witness: a run whose summarize call timed out and which ended in that
\* error, after a crawl
C5_Witness ==
    /\ mode = "analyze" /\ SummarizeRaised
    /\ llmOutcome[1].exc[1].type = "ReadTimeout"
    /\ rpc = "raised" /\ calls.crawl = 1

(***************************************************************************)
(* Claims about the parser (SpecParser)                                    *)
(***************************************************************************)

ParserDone == ppc \in {"parsed", "built"}

\* C7: for every text that is well-formed JSON, bare or wrapped in one fenced
\* code block, _parse_summary_text returns exactly the value that decoding
\* the JSON body gives.
C7_WellFormedJsonDecodedExactly ==
    (ParserDone /\ origin.family \in {"bare", "fenced"} /\ JsonLoads(origin.body).ok)
        => parsed[1] = Returned(JsonLoads(origin.body).val)

\* the top-level fields of a cut object that were completely written before the cut
CompleteFields(fields, cut) == {i \in 1..Len(fields) : FieldEnd(fields, i) <= cut}

\* C8: for every object text cut off after at least one complete top-level
\* field, _parse_summary_text returns a mapping that holds every completely
\* written top-level field with its original value.
C8_CutObjectKeepsCompleteFields ==
    (ParserDone /\ origin.family = "cut")
        => /\ parsed[1].kind = "return"
           /\ parsed[1].val[1].t = "obj"
           /\ \A i \in CompleteFields(origin.fields, origin.cut) :
                /\ HasKey(parsed[1].val[1], origin.fields[i].key)
                /\ DictGet(parsed[1].val[1], origin.fields[i].key, PyNone)
                       = JsonLoads(origin.fields[i].value).val

\* C9: for every text, _parse_summary_text returns a mapping or fails with a
\* content error; what reaches from_llm_payload is always a mapping.
C9_ParserReturnsMappingOrContentError ==
    ParserDone
        => \/ parsed[1].kind = "return" /\ parsed[1].val[1].t = "obj"
           \/ parsed[1].kind = "raise" /\ IsInstance(parsed[1].exc[1], "LLMContentError")

\* the message of the content error is the fixed prefix followed by shown
FailsWithPreview(outcome, shown) ==
    /\ outcome.kind = "raise"
    /\ IsInstance(outcome.exc[1], "LLMContentError")
    /\ outcome.exc[1].msg = InvalidJsonPrefix \o shown

\* shown is whole when whole is short enough, else a cut of it ending in '...'
IsPreviewOf(shown, whole) ==
    IF Len(whole) <= PreviewLimit THEN shown = whole
    ELSE /\ Len(shown) <= PreviewLimit
         /\ Len(shown) >= Len(Ellipsis)
         /\ shown = Take(whole, Len(shown) - Len(Ellipsis)) \o Ellipsis

\* C10 as stated: for every text that is not valid JSON and holds no '{',
\* _parse_summary_text fails with a content error whose message shows the
\* trimmed, flattened text: whole when at most 240 characters long, else cut
\* and ended with '...' within 240 characters.
C10_NoBracePreviewOfText ==
    (ParserDone /\ ~Contains(text, <<"{">>) /\ ~JsonLoads(text).ok)
        => /\ parsed[1].kind = "raise"
           /\ FailsWithPreview(parsed[1], Drop(parsed[1].exc[1].msg, Len(InvalidJsonPrefix)))
           /\ IsPreviewOf(Drop(parsed[1].exc[1].msg, Len(InvalidJsonPrefix)),
                          Flatten(Strip(text)))

\* C10 amended: for every text that holds no '{' and whose cleaned form (the
\* text trimmed, and reduced to the body of its fenced block if it opens with
\* a fence) is not valid JSON, _parse_summary_text fails with a content error
\* whose message shows the cleaned form with newlines flattened: whole when at
\* most 240 characters long, else its first 237 characters followed by '...'.
C10_NoBracePreviewOfCleanedText ==
    (ParserDone /\ ~Contains(text, <<"{">>) /\ ~JsonLoads(_strip_code_block(text)).ok)
        => FailsWithPreview(
               parsed[1],
               IF Len(Flatten(_strip_code_block(text))) <= PreviewLimit
               THEN Flatten(_strip_code_block(text))
               ELSE Take(Flatten(_strip_code_block(text)), PreviewKept) \o Ellipsis)

\* a text longer than the limit, with no brace, has been parsed and was refused
C10_Witness ==
    /\ ppc = "parsed"
    /\ ~Contains(text, <<"{">>)
    /\ Len(Flatten(_strip_code_block(text))) > PreviewLimit
    /\ parsed[1].kind = "raise"
    /\ Len(parsed[1].exc[1].msg) = Len(InvalidJsonPrefix) + PreviewLimit

\* the closers owed by the structures still open after s[i..], innermost
\* first; open is the closers owed so far
RECURSIVE OwedClosers(_, _, _)
OwedClosers(s, i, open) ==
    IF i > Len(s) THEN open
    ELSE IF s[i] = "{" THEN OwedClosers(s, i + 1, <<"}">> \o open)
    ELSE IF s[i] = "[" THEN OwedClosers(s, i + 1, <<"]">> \o open)
    ELSE IF s[i] \in {"}", "]"} /\ open # <<>> /\ open[1] = s[i]
    THEN OwedClosers(s, i + 1, Tail(open))
    ELSE OwedClosers(s, i + 1, open)

\* the candidate with as many closers as it has unbalanced openers, appended
\* in the order that closes the nesting
ClosedInNestingOrder(candidate) ==
    IF /\ Count(OwedClosers(candidate, 1, <<>>), "}")
            = Count(AutoClose(candidate), "}") - Count(candidate, "}")
       /\ Count(OwedClosers(candidate, 1, <<>>), "]")
            = Count(AutoClose(candidate), "]") - Count(candidate, "]")
    THEN candidate \o OwedClosers(candidate, 1, <<>>)
    ELSE AutoClose(candidate)

\* the tail cuts of txt from start_idx on whose candidate, closed in nesting
\* order, decodes to a mapping that is not empty
RecoverableOffsets(txt, start_idx) ==
    {end_offset \in (IF start_idx = 0 THEN {} ELSE 0..(Len(txt) - start_idx)) :
        Accepted(JsonLoads(ClosedInNestingOrder(
            SubSeq(txt, start_idx, Len(txt) - end_offset))))}

\* C22: when strict decoding fails and the text holds a '{', the candidates
\* run from the first '{' with 0, 1, 2, ... characters cut from the tail; each
\* is closed with the closers its open structures owe, in nesting order; the
\* parser returns the decoded first candidate that is a mapping and not empty.
C22_FirstCandidateClosedInNestingOrderWins ==
    (ParserDone /\ ~JsonLoads(_strip_code_block(text)).ok
                /\ RecoverableOffsets(Strip(_strip_code_block(text)),
                                      Find(Strip(_strip_code_block(text)), "{")) # {})
        => parsed[1] =
             Returned(JsonLoads(ClosedInNestingOrder(
                 SubSeq(Strip(_strip_code_block(text)),
                        Find(Strip(_strip_code_block(text)), "{"),
                        Len(Strip(_strip_code_block(text)))
                          - (CHOOSE o \in RecoverableOffsets(Strip(_strip_code_block(text)),
                                        Find(Strip(_strip_code_block(text)), "{")) :
                               \A o2 \in RecoverableOffsets(Strip(_strip_code_block(text)),
                                        Find(Strip(_strip_code_block(text)), "{")) :
                                   o <= o2)))).val)

\* C23: for a text that strict decoding refuses, of which no tail cut decodes
\* to a mapping that is not empty, and that holds a complete overview field,
\* the parser returns exactly the mapping of that overview as it reads (escaped
\* quotes and escaped newlines unescaped), the content type "document" and the
\* one note that the data is incomplete.
C23_OverviewScrapedAsItReads ==
    (ParserDone /\ origin.family = "broken")
        => parsed[1] =
             Returned(JObj(<<
                 [k |-> <<"o","v","e","r","v","i","e","w">>, v |-> JStr(origin.overview)],
                 [k |-> <<"c","o","n","t","e","n","t","_","t","y","p","e">>,
                  v |-> JStr(<<"d","o","c","u","m","e","n","t">>)],
                 [k |-> <<"s","e","c","t","i","o","n","s">>,
                  v |-> JObj(<<
                      [k |-> <<"n","o","t","e">>,
                       v |-> JArr(<<JStr(<<"JSON response was incomplete. Only partial data extracted.">>)>>)]
                      >>)] >>))

(***************************************************************************)
(* Claims about the fallback builder (SpecFallback)                        *)
(***************************************************************************)

\* C6: build_fallback_summary returns a summary for every crawl and analysis,
\* empty ones included; its overview holds the total page count and the reason
\* verbatim, and its sections hold a non-empty key_sections entry, which is
\* the root URL alone when no page line could be produced.
C6_FallbackSummaryAlwaysBuilt ==
    fbpc = "built"
        => /\ Len(fbOut) = 1
           /\ fbOut[1].overview.t = "str"
           /\ Contains(fbOut[1].overview.v, IntStr(fbArgs.analysis.total_pages))
           /\ Contains(fbOut[1].overview.v, fbArgs.reason)
           /\ fbOut[1].sections.t = "obj"
           /\ HasKey(fbOut[1].sections, KeySectionsKey)
           /\ DictGet(fbOut[1].sections, KeySectionsKey, PyNone).t = "arr"
           /\ DictGet(fbOut[1].sections, KeySectionsKey, PyNone).v # <<>>
           /\ (fbArgs.analysis.page_summaries = <<>> /\ fbArgs.crawl.pages = <<>>)
                  => DictGet(fbOut[1].sections, KeySectionsKey, PyNone)
                         = StrList(<<fbArgs.analysis.root_url>>)

\* a summary was built from nothing: no page, no page summary, no keyword, no CTA
C6_Witness ==
    /\ fbpc = "built"
    /\ fbArgs.crawl.pages = <<>>
    /\ fbArgs.analysis.page_summaries = <<>>
    /\ fbArgs.analysis.keywords = <<>>
    /\ fbArgs.analysis.ctas = <<>>
    /\ fbArgs.analysis.total_pages = 0
    /\ DictGet(fbOut[1].sections, KeySectionsKey, PyNone) = StrList(<<RootUrl>>)

\* the lines of a list[str] value
LinesOf(value) == [i \in 1..Len(value.v) |-> value.v[i].v]

KeySectionLines == LinesOf(DictGet(fbOut[1].sections, KeySectionsKey, PyNone))

\* the line expected for one page summary
ExpectedSectionLine(page, line) ==
    LET title == IF "title" \in DOMAIN page THEN page.title ELSE <<"N","o","n","e">>
        described == "description" \in DOMAIN page /\ page.description # <<>>
        headed == "headings" \in DOMAIN page /\ page.headings # <<>>
    IN  IF described THEN line = title \o <<":"," ">> \o page.description
        ELSE IF headed
        THEN line = title \o <<":"," ">> \o page.headings[1] \o <<" ","/"," ">> \o page.headings[2]
        ELSE line = title \o <<":"," ">> \o IntStr(page.word_count)
                      \o <<" ","w","o","r","d","s"," ","(","s","t","a","t","u","s"," ">>
                      \o <<"N","o","n","e",")">>

\* the names of a list, the first n of them, joined by ', '
RECURSIVE FirstJoined(_, _)
FirstJoined(names, n) ==
    IF n = 0 \/ names = <<>> THEN <<>>
    ELSE IF n = 1 \/ Len(names) = 1 THEN names[1]
    ELSE names[1] \o <<","," ">> \o FirstJoined(Tail(names), n - 1)

\* C25: the fallback summary has one key_sections line for each of the first
\* three page summaries and none for the later ones, each line made of the
\* title and the description, else the joined headings, else the word count
\* and status; without page summaries the first crawled page gives the one
\* line; the highlights name the first six keywords, the link counts and the
\* first five CTAs; the recommendations are the two fixed lines.
C25_FallbackSectionsHighlightsRecommendations ==
    fbpc = "built" =>
        LET summaries == fbArgs.analysis.page_summaries
            pages == fbArgs.crawl.pages
            keywords == fbArgs.analysis.keywords
            ctas == fbArgs.analysis.ctas
            highlights == LinesOf(fbOut[1].highlights)
            links == <<"I","n","t","e","r","n","a","l"," ","l","i","n","k","s",":"," ","3"," ",
                       middot," ","E","x","t","e","r","n","a","l"," ","l","i","n","k","s",":",
                       " ","0">>
        IN  /\ summaries # <<>> =>
                /\ Len(KeySectionLines) = (IF Len(summaries) < 3 THEN Len(summaries) ELSE 3)
                /\ \A i \in 1..Len(KeySectionLines) :
                       ExpectedSectionLine(summaries[i], KeySectionLines[i])
            /\ (summaries = <<>> /\ pages # <<>>) =>
                KeySectionLines =
                    << (IF pages[1].title # <<>> THEN pages[1].title ELSE pages[1].url)
                          \o <<":"," ">> \o pages[1].description >>
            /\ highlights =
                   (IF keywords # <<>>
                    THEN << <<"T","o","p"," ","k","e","y","w","o","r","d","s",":"," ">>
                              \o FirstJoined(keywords, 6) >>
                    ELSE <<>>)
                   \o <<links>>
                   \o (IF ctas # <<>>
                       THEN << <<"D","e","t","e","c","t","e","d"," ","C","T","A","s",":"," ">>
                                 \o FirstJoined(ctas, 5) >>
                       ELSE <<>>)
            /\ DictGet(fbOut[1].sections, HighlightsKey, PyNone) = fbOut[1].highlights
            /\ LinesOf(fbOut[1].recommendations) =
                   << <<"Review the crawler output manually because the LLM blocked the content.">>,
                      <<"Retry with sanitized text or a different site if you need an AI-authored summary.">> >>
            /\ DictGet(fbOut[1].sections, RecommendationsKey, PyNone) = fbOut[1].recommendations

\* a summary was built from four page summaries, seven keywords and six CTAs
C25_Witness ==
    /\ fbpc = "built"
    /\ Len(fbArgs.analysis.page_summaries) = 4
    /\ Len(fbArgs.analysis.keywords) = 7
    /\ Len(fbArgs.analysis.ctas) = 6
    /\ Len(KeySectionLines) = 3
    /\ Len(LinesOf(fbOut[1].highlights)) = 3

(***************************************************************************)
(* Claims about the summaries a run can produce                            *)
(***************************************************************************)

\* overview and content_type are non-empty strings, sections is a mapping
WellFormedSummary(summary) ==
    /\ summary.overview.t = "str" /\ summary.overview.v # <<>>
    /\ summary.content_type.t = "str" /\ summary.content_type.v # <<>>
    /\ summary.sections.t = "obj"

\* C11: every SiteSummary built, by from_llm_payload from a parsed mapping,
\* by build_fallback_summary, or by a run (its fallbacks included), has a
\* non-empty string overview and content_type and a sections mapping.
C11_EverySummaryWellFormed ==
    /\ (ppc = "built" /\ built[1].kind = "return") => WellFormedSummary(built[1].val[1])
    /\ fbpc = "built" => WellFormedSummary(fbOut[1])
    /\ result # <<>> => WellFormedSummary(result[1].summary)

(***************************************************************************)
(* Claims about download_report (SpecReport)                               *)
(***************************************************************************)

\* the path lies in the report directory
InsideReportDir(path) == Take(path, Len(ReportDir)) = ReportDir

\* C12: a file is served only if its resolved path lies inside the report
\* directory; every name that resolves outside it, a sibling whose path begins
\* with the report directory's path included, is answered with not-found.
C12_OnlyReportDirServed ==
    dlpc = "done"
        => /\ dlOut[1].status = 200 => InsideReportDir(dlOut[1].path)
           /\ ~InsideReportDir(SafePath(dlReq.platform, dlReq.name)) => dlOut[1] = NotFound


\* the provider answered the summarize request of run with an HTTP status
\* that is not a success
HttpFailureInRun ==
    /\ mode \in {"stream", "analyze"}
    /\ llmOutcome # <<>> /\ llmOutcome[2].kind = "error"

LlmOutputUnavailable ==
    <<"L","L","M"," ","o","u","t","p","u","t"," ","u","n","a","v","a","i","l","a","b","l","e">>

ManualReviewLine ==
    JStr(<<"Review the crawler output manually because the LLM blocked the content.">>)

HasRecommendation(summary, line) ==
    /\ summary.sections.t = "obj"
    /\ \E i \in 1..Len(summary.sections.v) :
          /\ summary.sections.v[i].k = RecommendationsKey
          /\ summary.sections.v[i].v.t = "arr"
          /\ \E j \in 1..Len(summary.sections.v[i].v.v) : summary.sections.v[i].v.v[j] = line

\* C13: when the crawl succeeded and the provider answered with an HTTP
\* status that is not a success, the client raised a content error that
\* carries that status and the provider's own message when it gave one (the
\* reply's text is never parsed as a summary); unless rendering failed, run
\* returns a result whose overview contains "LLM output unavailable" and the
\* failure text verbatim and whose recommendations hold the manual-review line.
C13_HttpFailureBecomesFallbackResult ==
    HttpFailureInRun =>
        /\ llmOutcome[1].kind = "raise"
        /\ IsInstance(llmOutcome[1].exc[1], "LLMContentError")
        /\ llmOutcome[1].exc[1].status = llmOutcome[2].status
        /\ llmOutcome[2].message # <<>> =>
              Contains(llmOutcome[1].exc[1].msg, llmOutcome[2].message[1])
        /\ (llmOutcome[2].message = <<>> /\ llmOutcome[2].text # <<>>) =>
              Contains(llmOutcome[1].exc[1].msg, llmOutcome[2].text)
        /\ rpc \in {"returned", "raised"}
        /\ rpc = "raised" => (calls.render = 1 /\ error[1].type = "OSError")
        /\ rpc = "returned" =>
              /\ result # <<>>
              /\ Contains(result[1].summary.overview.v, LlmOutputUnavailable)
              /\ Contains(result[1].summary.overview.v, llmOutcome[1].exc[1].msg)
              /\ HasRecommendation(result[1].summary, ManualReviewLine)

\* C13 witness: a run that returned a result after an HTTP 429 with the
\* provider's message
C13_Witness ==
    /\ HttpFailureInRun /\ llmOutcome[2].status = 429 /\ llmOutcome[2].message # <<>>
    /\ rpc = "returned" /\ result # <<>> /\ calls.crawl = 1

\* the summarize call of run raised the client's missing-credential error
CredentialMissingInRun ==
    /\ mode \in {"stream", "analyze"}
    /\ SummarizeRaised /\ IsConfigurationFailure(llmOutcome[1].exc[1])

SetupTag ==
    <<"A","P","I"," ","k","e","y"," ","c","o","n","f","i","g","u","r","a","t","i","o","n"," ",
      "e","r","r","o","r",":"," ">>

\* C14: when the summarize call of run raised the missing-credential error,
\* the fallback builder is called once and the report is rendered once; unless
\* rendering failed the run emits "Generating PDF report" and "Report saved"
\* last and returns a result whose overview holds the reason tagged as an API
\* key configuration error followed by the original error text.  No run whose
\* summarize call raised a content error carries that tag.
C14_MissingCredentialTakesTaggedFallback ==
    /\ CredentialMissingInRun =>
          /\ calls.fallback = 1 /\ calls.render = 1
          /\ rpc \in {"returned", "raised"}
          /\ rpc = "raised" => error[1].type = "OSError"
          /\ rpc = "returned" =>
                /\ result # <<>>
                /\ Len(stages) >= 2
                /\ stages[Len(stages) - 1] = <<"Generating PDF report">>
                /\ stages[Len(stages)] = <<"Report saved">>
                /\ Contains(result[1].summary.overview.v, LlmOutputUnavailable)
                /\ Contains(result[1].summary.overview.v,
                            SetupTag \o llmOutcome[1].exc[1].msg)
                /\ HasRecommendation(result[1].summary, ManualReviewLine)
    /\ (mode \in {"stream", "analyze"} /\ SummarizeRaised
            /\ IsContentFailure(llmOutcome[1].exc[1]) /\ result # <<>>) =>
          ~Contains(result[1].summary.overview.v, SetupTag)

\* C14 witness: a run without a key that returned a result, no request sent
C14_Witness ==
    /\ CredentialMissingInRun /\ llmOutcome[2] = NotSent
    /\ rpc = "returned" /\ result # <<>> /\ calls.fallback = 1

InRun == mode \in {"stream", "analyze"}

\* the message of the fallback taken, if one was
FallbackNote ==
    IF calls.fallback = 0 THEN <<>>
    ELSE IF IsConfigurationFailure(llmOutcome[1].exc[1]) THEN <<ConfigurationErrorDetected>>
    ELSE <<LlmBlockedCrawlerOnly>>

UpToSummarize == <<Launching, CrawlComplete, CallingGemini>>

\* C15 as stated: the seven states of a completed run are joined by six
\* transitions, each with exactly one notification of the orchestrator.
C15_OneNotificationPerTransition ==
    (InRun /\ rpc = "returned") => Len(stages) = 6

\* C15 amended: the orchestrator's own notifications are, in order, "Launching
\* headless browser" before the session and the crawl, "Crawl complete;
\* building metadata" and "Calling Gemini for summary" after the crawl and
\* before the summarize request, one message of the fallback handler exactly
\* when the summarize call raised a RuntimeError or a content error,
\* "Generating PDF report" before the render and "Report saved" after it; a
\* run that fails or is cancelled has emitted the part that precedes the
\* failure.  A successful summarize call is followed by no message of its own.
C15_NotificationsFollowStages ==
    InRun =>
        /\ rpc = "created" => stages = <<>>
        /\ rpc = "crawling" => stages = <<Launching>>
        /\ rpc = "summarizing" => stages = UpToSummarize
        /\ rpc = "cancelled" => stages \in {<<>>, <<Launching>>, UpToSummarize}
        /\ rpc = "returned" =>
              stages = UpToSummarize \o FallbackNote \o <<GeneratingPdf, ReportSaved>>
        /\ rpc = "raised" =>
              stages = IF crawled = <<>> THEN <<Launching>>
                       ELSE IF calls.render = 1
                       THEN UpToSummarize \o FallbackNote \o <<GeneratingPdf>>
                       ELSE IF IsInstance(llmOutcome[1].exc[1], "RuntimeError")
                       THEN UpToSummarize \o <<ConfigurationErrorDetected>>
                       ELSE UpToSummarize
        /\ calls.crawl = 1 => Len(stages) >= 1
        /\ calls.llm = 1 => Len(stages) >= 3
        /\ calls.fallback = 1 => (Len(stages) >= 4
                                    /\ stages[4] \in {ConfigurationErrorDetected,
                                                      LlmBlockedCrawlerOnly})
        /\ calls.render = 1 => <<GeneratingPdf>> \in {<<stages[i]>> : i \in 1..Len(stages)}

\* C15 witness: a run that returned after a successful summarize call, and
\* emitted five messages
C15_Witness ==
    /\ InRun /\ rpc = "returned" /\ calls.fallback = 0 /\ Len(stages) = 5

\* the crawl of run raised; the render of run raised
CrawlFailed == InRun /\ rpc = "raised" /\ calls.crawl = 1 /\ crawled = <<>>
RenderFailed == InRun /\ rpc = "raised" /\ calls.render = 1

\* C16: after a failure of the crawl or of the render, run has ended in error
\* with the failure as it was raised, "Report saved" was not emitted, there is
\* no result, and no later stage has run (after a crawl failure no summarize
\* request, no fallback and no render; the render is the last stage).  The
\* synchronous endpoint answers 500 with the failure's text; a stream that
\* is not cancelled yields one error event with that text as its last event
\* and ends only after it.
C16_CrawlAndRenderFailuresPropagate ==
    (CrawlFailed \/ RenderFailed) =>
        /\ result = <<>> /\ error # <<>>
        /\ \A i \in 1..Len(stages) : stages[i] # <<"Report saved">>
        /\ CrawlFailed =>
              /\ error[1] = CrawlFailure
              /\ calls.llm = 0 /\ calls.fallback = 0 /\ calls.render = 0
              /\ llmOutcome = <<>> /\ session = "closed"
              /\ stages = <<Launching>>
        /\ RenderFailed =>
              /\ error[1].type = "OSError"
              /\ stages[Len(stages)] = <<"Generating PDF report">>
        /\ mode = "analyze" =>
              /\ response # <<>>
              /\ response[1].status = 500
              /\ response[1].detail = error[1].msg
              /\ response[1].body = <<>>
        /\ (mode = "stream" /\ cancelled = 0) =>
              /\ response = <<>>
              /\ gpc = "finished" => TerminalYielded
              /\ TerminalYielded =>
                    /\ delivered[Len(delivered)].type = "error"
                    /\ delivered[Len(delivered)].message = error[1].msg
                    /\ \A i \in 1..(Len(delivered) - 1) : delivered[i].type = "status"

\* C16 witness: a stream that was not cancelled and has finished after the
\* crawl failed
C16_Witness ==
    CrawlFailed /\ mode = "stream" /\ cancelled = 0 /\ gpc = "finished"

\* C17: in one run (run or run_from_text) the crawl is started at most once,
\* the LLM client is called at most once, the report is rendered at most
\* once and a fallback summary is built at most once, whatever fails; a
\* fallback or a render follows exactly one call of the client, and
\* run_from_text never crawls.
C17_NoStageRunsTwice ==
    /\ calls.crawl <= 1 /\ calls.llm <= 1 /\ calls.render <= 1 /\ calls.fallback <= 1
    /\ mode = "analyze_text" => calls.crawl = 0
    /\ calls.fallback = 1 => calls.llm = 1
    /\ calls.render = 1 => calls.llm = 1
    /\ calls.llm = 1 => (InRun => calls.crawl = 1)

\* C17 witness: a run whose summarize request failed, which fell back, and
\* whose render failed then
C17_Witness ==
    /\ InRun /\ rpc = "raised" /\ SummarizeRaised /\ llmOutcome[2] # NotSent
    /\ calls = [crawl |-> 1, llm |-> 1, fallback |-> 1, render |-> 1]


(***************************************************************************)
(* The polling loop of the streaming endpoint                              *)
(***************************************************************************)

LeftLoop == gpc \in {"await_task", "yield_terminal", "finished"}

\* C18: a consumer that is not cancelled leaves the polling loop only when
\* the producer task has finished.  Once the task has finished and the queue
\* is empty the consumer starts no new poll, and a poll that times out with
\* the task finished is the last one: the terminal event or the end of the
\* stream follows.  Whenever the task has finished, the stream is eventually
\* closed; without a cancellation a terminal event has been yielded by then.
C18_ConsumerLeavesLoopWhenProducerDone ==
    /\ []((mode = "stream" /\ cancelled = 0 /\ LeftLoop) => TaskDone)
    /\ []((mode = "stream" /\ cancelled = 0 /\ gpc = "finished") => Terminals # {})
    /\ [][(mode = "stream" /\ TaskDone /\ queue = <<>> /\ gpc # "waiting")
              => gpc' # "waiting"]_vars
    /\ [][(mode = "stream" /\ TaskDone /\ gpc = "timedout")
              => gpc' \in {"timedout", "yield_terminal", "finished"}]_vars
    /\ (mode = "stream" /\ TaskDone) ~> (gpc = "finished")

\* C18 witness: a poll of a consumer that was never cancelled has timed out
\* with the producer finished and the queue empty
C18_Witness ==
    /\ mode = "stream" /\ cancelled = 0 /\ gpc = "timedout"
    /\ TaskDone /\ queue = <<>>

StatusDelivered == SelectSeq(delivered, LAMBDA e : e.type = "status")

\* C20: whether or not a hook is attached, a run that returns has emitted the
\* stage messages its outcomes determine and returns the result they
\* determine.  On a stream every message emitted and every message of the
\* crawler has been put on the queue at once, and the events delivered
\* followed by those still queued are the events put.  Wherever the reader
\* stands, the run can start, and the crawl can end; while the reader holds
\* an event and more are waiting in the queue, the summarize call can end and
\* the run go on to its end; the
\* task is ended by nothing but its own outcome or a cancellation of the
\* consumer.
C20_ObserverNeverHoldsUpTheRun ==
    /\ (InRun /\ rpc = "returned") =>
            /\ stages = UpToSummarize
                          \o RunHandleSummarize(llmOutcome[1], crawled[1].crawl,
                                                crawled[1].analysis).emits
                          \o <<GeneratingPdf, ReportSaved>>
            /\ \E r \in RenderOutcomes :
                  /\ r.kind = "return"
                  /\ result[1] = ServiceResult(request, <<crawled[1].crawl>>,
                                     <<crawled[1].analysis>>,
                                     RunHandleSummarize(llmOutcome[1], crawled[1].crawl,
                                         crawled[1].analysis).summary.val[1],
                                     r.val[1])
    /\ mode = "stream" =>
            /\ Len(puts) = Len(stages) + crawlMsgs
            /\ StatusDelivered \o queue = puts
            /\ rpc = "cancelled" => cancelled > 0
    /\ mode = "analyze" => (queue = <<>> /\ puts = <<>> /\ crawlMsgs = 0)
    /\ (InRun /\ ~cancelReq /\ TaskMayStep) =>
            /\ rpc = "created" => ENABLED RunStart
            /\ rpc = "crawling" => (ENABLED CrawlReturn /\ ENABLED CrawlRaise)
            /\ (rpc = "summarizing" /\ gpc = "yield_status" /\ queue # <<>>)
                  => ENABLED SummarizeDone

\* C20 witness: the run of a stream has returned while the reader, never
\* cancelled, still holds the first event and five more are queued
C20_Witness ==
    /\ mode = "stream" /\ cancelled = 0 /\ rpc = "returned"
    /\ gpc = "yield_status" /\ Len(delivered) = 1 /\ Len(queue) >= 5


(***************************************************************************)
(* run_from_text against run                                               *)
(***************************************************************************)

InText == mode = "analyze_text"

\* what run emits after the summarize call returned or raised, for the
\* outcome this run_from_text saw and the way its render went
RunEmitsAfterCall(c) ==
    RunHandleSummarize(llmOutcome[1], c.crawl, c.analysis).emits
        \o (IF rpc = "returned" THEN <<GeneratingPdf, ReportSaved>>
            ELSE IF calls.render = 1 THEN <<GeneratingPdf>>
            ELSE <<>>)

\* the wording of run_from_text for a message of run
TextWording(msg) ==
    IF msg = <<"LLM blocked the content; using crawler-only summary">>
    THEN <<"LLM blocked the content; generating basic summary">>
    ELSE IF msg = <<"Calling Gemini for summary">> THEN <<"Analyzing text content">>
    ELSE msg

SyntheticAnalysis ==
    [root_url |-> <<"t","e","x","t","-","i","n","p","u","t">>, total_pages |-> 1,
     internal_links |-> 0, external_links |-> 0, top_headings |-> <<>>, keywords |-> <<>>,
     ctas |-> <<>>, page_summaries |-> <<>>]

\* C19 as stated: after its first message, run_from_text has emitted the
\* messages run emits after the summarize call, for the same outcomes.
C19_TextEmitsWhatRunEmits ==
    (InText /\ llmOutcome # <<>>) =>
        \A c \in CrawlCases : Tail(stages) = RunEmitsAfterCall(c)

\* C19 amended: for the same outcome of the client call and of the render,
\* run_from_text ends as run does (result, or the same failure raised), takes
\* a fallback exactly when run does, and emits message for message what run
\* emits from "Calling Gemini for summary" on, in the wording of
\* run_from_text; it never crawls, and its result carries no crawl and the
\* synthetic one-page analysis.
C19_TextFollowsRunFromSummarizing ==
    (InText /\ llmOutcome # <<>>) =>
        /\ \A c \in CrawlCases :
              LET after == <<CallingGemini>> \o RunEmitsAfterCall(c)
              IN  /\ stages = [i \in 1..Len(after) |-> TextWording(after[i])]
                  /\ (calls.fallback = 1) =
                         RunHandleSummarize(llmOutcome[1], c.crawl, c.analysis).fallback
                  /\ RunHandleSummarize(llmOutcome[1], c.crawl, c.analysis).summary.kind
                         = "raise"
                       => /\ rpc = "raised"
                          /\ error = RunHandleSummarize(llmOutcome[1], c.crawl,
                                                        c.analysis).summary.exc
                  /\ RunHandleSummarize(llmOutcome[1], c.crawl, c.analysis).summary.kind
                         = "return"
                       => calls.render = 1
        /\ calls.crawl = 0 /\ session = "none" /\ crawled = <<>>
        /\ rpc \in {"returned", "raised"}
        /\ rpc = "returned" =>
              /\ result[1].crawl = <<>>
              /\ result[1].analysis = <<SyntheticAnalysis>>
              /\ result[1].url = SyntheticAnalysis.root_url

\* C19 witness: run_from_text returned a result after a content error, with
\* its own wording of the fallback message
C19_Witness ==
    /\ InText /\ rpc = "returned" /\ SummarizeRaised
    /\ IsContentFailure(llmOutcome[1].exc[1])
    /\ stages[2] = <<"LLM blocked the content; generating basic summary">>


(***************************************************************************)
(* A RuntimeError of the summarization call that is not about the key      *)
(***************************************************************************)

\* 'api key'
LowerApiKey == <<"a","p","i"," ","k","e","y">>

\* the summarization call raised a RuntimeError whose text mentions neither
\* "API_KEY" nor, in any case, "api key"
OtherRuntimeError ==
    /\ mode \in {"stream", "analyze", "analyze_text"}
    /\ llmOutcome # <<>> /\ llmOutcome[1].kind = "raise"
    /\ IsInstance(llmOutcome[1].exc[1], "RuntimeError")
    /\ ~Contains(llmOutcome[1].exc[1].msg, <<"A","P","I","_","K","E","Y">>)
    /\ ~Contains(Lower(llmOutcome[1].exc[1].msg), LowerApiKey)

\* C28: when the summarization call of run or of run_from_text raised a
\* RuntimeError that mentions neither "API_KEY" nor "api key", the last
\* message emitted is "Configuration error detected" and the same error
\* leaves the call: no fallback summary was built, nothing was rendered,
\* neither "Generating PDF report" nor "Report saved" was emitted and there
\* is no result.
C28_OtherRuntimeErrorIsReraised ==
    OtherRuntimeError =>
        /\ rpc = "raised"
        /\ error # <<>>
        /\ error[1].type = llmOutcome[1].exc[1].type
        /\ error[1].msg = llmOutcome[1].exc[1].msg
        /\ stages # <<>> /\ stages[Len(stages)] = <<"Configuration error detected">>
        /\ \A i \in 1..Len(stages) :
              stages[i] \notin { <<"Generating PDF report">>, <<"Report saved">> }
        /\ calls["fallback"] = 0 /\ calls["render"] = 0
        /\ result = <<>>

\* C28 witness: a streamed run whose summarization call failed on a closed
\* client ended with that error
C28_Witness ==
    /\ OtherRuntimeError /\ mode = "stream"
    /\ llmOutcome[1].exc[1].msg = MsgClientClosed
    /\ rpc = "raised" /\ calls["crawl"] = 1 /\ calls["llm"] = 1


(***************************************************************************)
(* The serialized result                                                   *)
(***************************************************************************)

\* the request has been answered with a serialized result
ResultSerialized ==
    \/ mode \in {"analyze", "analyze_text"} /\ response # <<>> /\ response[1].status = 200
    \/ mode = "stream" /\ delivered # <<>> /\ delivered[Len(delivered)].type = "summary"

Serialized ==
    IF mode = "stream" THEN delivered[Len(delivered)].payload[1] ELSE response[1].body[1]

\* the text of the provider's reply, when it is a JSON object with an overview
CleanJsonReply ==
    /\ llmOutcome # <<>> /\ llmOutcome[2].kind = "ok"
    /\ llmOutcome[2].candidates # <<>>
    /\ llmOutcome[2].candidates[1].parts # <<>>
    /\ JsonLoads(llmOutcome[2].candidates[1].parts[1]).ok
    /\ JsonLoads(llmOutcome[2].candidates[1].parts[1]).val.t = "obj"
    /\ HasKey(JsonLoads(llmOutcome[2].candidates[1].parts[1]).val,
              <<"o","v","e","r","v","i","e","w">>)

ReportsEndpoint == <<"/","a","p","i","/","r","e","p","o","r","t","s","/">>

\* C21: when the crawl succeeded and the provider's reply is a JSON object
\* with an overview, no fallback is built and the serialized summary carries
\* that overview as it was decoded; every serialized result names its report
\* as "/api/reports/" followed by the last component of the rendered path and
\* nothing of its directories.
C21_OverviewVerbatimAndReportUnderPrefix ==
    /\ (InRun /\ rpc = "returned" /\ CleanJsonReply) =>
          /\ calls.fallback = 0
          /\ result[1].summary.overview
                = DictGet(JsonLoads(llmOutcome[2].candidates[1].parts[1]).val,
                          <<"o","v","e","r","v","i","e","w">>, PyNone)
          /\ ResultSerialized =>
                Serialized.summary.overview
                    = DictGet(JsonLoads(llmOutcome[2].candidates[1].parts[1]).val,
                              <<"o","v","e","r","v","i","e","w">>, PyNone)
    /\ ResultSerialized =>
          /\ rpc = "returned"
          /\ Take(Serialized.pdf_path, Len(ReportsEndpoint)) = ReportsEndpoint
          /\ Drop(Serialized.pdf_path, Len(ReportsEndpoint)) # <<>>
          /\ ~Contains(Drop(Serialized.pdf_path, Len(ReportsEndpoint)), <<"/">>)
          /\ \E k \in 1..Len(result[1].pdf_path) :
                /\ result[1].pdf_path[k] = "/"
                /\ Drop(result[1].pdf_path, k)
                      = Drop(Serialized.pdf_path, Len(ReportsEndpoint))

\* C21 witness: a synchronous run answered with the provider's overview
C21_Witness ==
    /\ mode = "analyze" /\ rpc = "returned" /\ CleanJsonReply /\ ResultSerialized
    /\ Serialized.summary.overview = JStr(<<"o">>)


(***************************************************************************)
(* The browser session of a run                                            *)
(***************************************************************************)

RunOver == rpc \in {"returned", "raised", "cancelled"}

\* C26: a run that is over, by return, by error or by cancellation, has no
\* browser session open, and a run that opened one has closed it; no session
\* is open while the summary is requested or once the report is rendered.
C26_SessionReleasedOnEveryExit ==
    /\ RunOver => session # "open"
    /\ (RunOver /\ calls["crawl"] > 0) => session = "closed"
    /\ rpc = "summarizing" => session # "open"
    /\ (calls["llm"] > 0 \/ calls["fallback"] > 0 \/ calls["render"] > 0) => session # "open"
    /\ session = "open" => (InRun /\ rpc = "crawling")

\* C26 witness: the run was cancelled while the crawl was under way, and the
\* session it had opened is closed
C26_Witness ==
    /\ rpc = "cancelled" /\ calls["crawl"] = 1 /\ crawled = <<>>
    /\ session = "closed"


(***************************************************************************)
(* The text taken from the provider's envelope                             *)
(***************************************************************************)

\* part j of candidate i holds text, and no part before it holds any
FirstTextIsAt(payload, i, j) ==
    /\ payload.candidates[i].parts[j] # <<>>
    /\ \A i2 \in 1..i : \A j2 \in 1..Len(payload.candidates[i2].parts) :
          (i2 < i \/ j2 < j) => payload.candidates[i2].parts[j2] = <<>>

HasTextPart(payload) ==
    \E i \in 1..Len(payload.candidates) : \E j \in 1..Len(payload.candidates[i].parts) :
        payload.candidates[i].parts[j] # <<>>

\* C24: once the envelope has been read, the text handed to the parser is
\* the first text part that is not empty, by candidate and then by part;
\* when the envelope has no candidate or none of them has such a part, the
\* call has ended with a content error, no text was taken and the parser
\* was not called.
C24_FirstTextPartOrContentError ==
    (origin.family = "envelope" /\ ppc # "envelope") =>
        IF HasTextPart(origin.payload)
        THEN /\ text # <<>>
             /\ \E i \in 1..Len(origin.payload.candidates) :
                  \E j \in 1..Len(origin.payload.candidates[i].parts) :
                      /\ FirstTextIsAt(origin.payload, i, j)
                      /\ text = origin.payload.candidates[i].parts[j]
             /\ ppc = "input" => (parsed = <<>> /\ built = <<>>)
             /\ ppc \in {"parsed", "built"} => parsed # <<>>
        ELSE /\ ppc = "built" /\ text = <<>> /\ parsed = <<>>
             /\ built[1].kind = "raise"
             /\ IsInstance(built[1].exc[1], "LLMContentError")
             /\ ~IsInstance(built[1].exc[1], "RuntimeError")

\* C24 witness: the first candidate holds no text, the second holds the text
\* that was taken and parsed
C24_Witness ==
    /\ origin.family = "envelope" /\ Len(origin.payload.candidates) = 2
    /\ ~HasTextPart([origin.payload EXCEPT !.candidates = <<@[1]>>])
    /\ ppc = "parsed" /\ text = <<"x">>


(***************************************************************************)
(* Claims about the text extraction (SpecUpload)                           *)
(***************************************************************************)

UploadSuffix == Lower(PathSuffix(upFile[1].filename))

UnsupportedType == UploadSuffix \notin (TextExtensions \cup {PdfExtension})

\* C27: an upload with a text suffix comes back decoded as UTF-8, else as
\* Latin-1, and an upload whose suffix is none of .txt, .md, .markdown and
\* .pdf and whose bytes are not UTF-8 ends with an error that names the
\* unsupported type, without any text returned.
C27_TextChainAndUnsupportedTypeRefused ==
    uppc = "done" =>
        /\ UploadSuffix \in TextExtensions =>
              /\ upOut[1].kind = "return"
              /\ upOut[1].val[1] = (IF DecodeUtf8(upFile[1].content, "strict").ok
                                    THEN DecodeUtf8(upFile[1].content, "strict").val
                                    ELSE upFile[1].content)
        /\ (UnsupportedType /\ ~DecodeUtf8(upFile[1].content, "strict").ok) =>
              /\ upOut[1].kind = "raise"
              /\ upOut[1].exc[1].msg[1] = "Unsupported file type: "

====
